---- MODULE Spec2Model ----
(***************************************************************************)
(* Animation blending state machine (src/src/animation/machine.rs):        *)
(* Parameter store, pose nodes, State, Transition and Machine, with        *)
(* Machine::evaluate_pose as the per-tick step.                            *)
(*                                                                         *)
(* Numbers.  Times (dt, elapsed_time, transition_time) are whole multiples *)
(* of one time unit, small enough that f32 adds and compares them exactly; *)
(* they are kept as integers.  Every other f32 (blend_factor, weights,     *)
(* pose channels) is a value of the form below: an exact fraction n/d, or  *)
(* one of the IEEE-754 specials NaN, +Inf, -Inf that a division by zero    *)
(* produces.  A pose is one scalar channel.                                *)
(***************************************************************************)
EXTENDS Integers, Sequences, FiniteSets, TLC

\* ------------------------------------------------------------------ bounds
MaxNodes == 2
MaxStates == 2
MaxTransitions == 2
MaxDuration == 2
MaxDt == 2
\* The Transition harness (SpecT): durations 0..MaxT, accumulated time <= MaxAcc.
MaxT == 7
MaxAcc == 14
\* The blend nodes of a graph (SpecG), added after the MaxNodes leaves.
MaxBlendNodes == 2
\* The event queue (SpecE): push_event calls beyond the capacity, and pop_event
\* calls.
ExtraPushes == 3
MaxPops == 2

\* ------------------------------------------------------- program constants
\* The capacity of Machine.events.
EventCapacity == 2048
\* The bits of an f32's significand.
MantissaBits == 24

\* --------------------------------------------------------------- f32 values
Abs(i) == IF i < 0 THEN 0 - i ELSE i

RECURSIVE GCD(_, _)
GCD(a, b) == IF b = 0 THEN a ELSE GCD(b, a % b)

\* The finite value n/d (d # 0), in lowest terms with a positive denominator.
\* (Here and in FAdd and FMul the operands are bound to their values first, so
\* that an operand that is itself a long expression is evaluated once.)
Num(n, d) ==
    CHOOSE r \in {LET g == GCD(Abs(a), Abs(b))
                      s == IF b < 0 THEN 0 - 1 ELSE 1
                  IN  [k |-> "num", n |-> (s * a) \div g, d |-> (s * b) \div g]
                  : a \in {n}, b \in {d}} : TRUE

F(i) == [k |-> "num", n |-> i, d |-> 1]
Zero == F(0)
One == F(1)
NaN == [k |-> "nan", n |-> 0, d |-> 1]
PInf == [k |-> "inf", n |-> 1, d |-> 1]
NInf == [k |-> "inf", n |-> 0 - 1, d |-> 1]

IsNum(x) == x.k = "num"
Sign(x) == IF x.n > 0 THEN 1 ELSE IF x.n < 0 THEN 0 - 1 ELSE 0
Inf(s) == IF s > 0 THEN PInf ELSE NInf

\* IEEE-754 ==: NaN equals nothing, itself included.
FEq(x, y) == x.k # "nan" /\ y.k # "nan" /\ x = y

\* IEEE-754 <= on non-NaN values (false when either is NaN).
FLe(x, y) ==
    /\ x.k # "nan" /\ y.k # "nan"
    /\ IF x.k = "inf" THEN x.n < 0 \/ x = y
       ELSE IF y.k = "inf" THEN y.n > 0
       ELSE x.n * y.d <= y.n * x.d

FAdd(x, y) ==
    CHOOSE r \in {IF a.k = "nan" \/ b.k = "nan" THEN NaN
                  ELSE IF a.k = "inf" /\ b.k = "inf" THEN (IF a.n = b.n THEN a ELSE NaN)
                  ELSE IF a.k = "inf" THEN a
                  ELSE IF b.k = "inf" THEN b
                  ELSE LET l == (a.d \div GCD(a.d, b.d)) * b.d
                       IN  Num(a.n * (l \div a.d) + b.n * (l \div b.d), l)
                  : a \in {x}, b \in {y}} : TRUE

FMul(x, y) ==
    CHOOSE r \in {IF a.k = "nan" \/ b.k = "nan" THEN NaN
                  ELSE IF a.k = "inf" \/ b.k = "inf"
                       THEN (IF Sign(a) * Sign(b) = 0 THEN NaN ELSE Inf(Sign(a) * Sign(b)))
                  ELSE Num(a.n * b.n, a.d * b.d)
                  : a \in {x}, b \in {y}} : TRUE

FNeg(x) == IF x.k = "nan" THEN NaN ELSE [x EXCEPT !.n = 0 - x.n]

FSub(x, y) == FAdd(x, FNeg(y))

\* A time is an f32 that holds a whole number of time units: the whole
\* numbers below 2^MantissaBits are all f32 values, the larger ones only at
\* the spacing of their binade.  f32_round is the f32 nearest to the whole
\* number x, a tie going to the even mantissa, which is what an f32 sum
\* leaves.
RECURSIVE f32_spacing(_)
f32_spacing(x) == IF x < 2^MantissaBits THEN 1 ELSE 2 * f32_spacing(x \div 2)
f32_round(x) ==
    LET m == Abs(x)
        u == f32_spacing(m)
        q == m \div u
        r == m % u
        up == 2 * r > u \/ (2 * r = u /\ q % 2 = 1)
        v == IF up THEN (q + 1) * u ELSE q * u
    IN  IF x < 0 THEN 0 - v ELSE v

\* a / b for two times (integers): 0/0 is NaN, x/0 is +-Inf.
TimeDiv(a, b) ==
    IF b = 0 THEN (IF a = 0 THEN NaN ELSE IF a > 0 THEN PInf ELSE NInf)
    ELSE Num(a, b)

\* ------------------------------------------------------------ AnimationPose
\* AnimationPose::reset: the neutral pose.
PoseReset == Zero

\* AnimationPose::blend_with(other, weight): self += other * weight.
blend_with(self, other, weight) == FAdd(self, FMul(other, weight))

\* AnimationPose::clone_into(dest): dest becomes a copy of self.
clone_into(self) == self

\* ------------------------------------------------------- Pool<T>, Handle<T>
\* A pool is the sequence of its entries in spawn order; a handle is an index
\* into it, and NONE is the handle that never resolves.
NONE == 0
is_none(h) == h = NONE
is_some(h) == h # NONE
\* Whether Pool::borrow(h) finds an entry (it panics when it does not).
is_valid_handle(pool, h) == h \in 1..Len(pool)
\* Pool::spawn appends: no entry of a Machine's pools is ever freed.
spawn(pool, x) == Append(pool, x)

\* ---------------------------------------------------------------- inputs
ParamNames == {"R1", "R2"}
Rule(b) == [kind |-> "Rule", rule |-> b, weight |-> Zero]
Weight(w) == [kind |-> "Weight", rule |-> FALSE, weight |-> w]
ParamValues == {Rule(TRUE), Rule(FALSE)}

\* The clips of the external AnimationContainer and the pose each shows in a
\* tick: clip c shows the pose c.
Clips == 1..MaxNodes
AnimInputs == {[c \in Clips |-> F(c)]}

\* Frame times handed to evaluate_pose.
DtValues == 0..MaxDt

\* ------------------------------------------------------------- constructors
PoseWeight_Constant(v) == [kind |-> "Constant", value |-> v, param |-> ""]
PoseWeight_Parameter(id) == [kind |-> "Parameter", value |-> Zero, param |-> id]

BlendPose_new(weight, pose_source) == [weight |-> weight, pose_source |-> pose_source]

PlayAnimation_new(animation) ==
    [kind |-> "PlayAnimation", animation |-> animation, pose_sources |-> <<>>,
     output_pose |-> PoseReset]

BlendAnimation_new(poses) ==
    [kind |-> "BlendAnimations", animation |-> NONE, pose_sources |-> poses,
     output_pose |-> PoseReset]

State_new(name, root) == [name |-> name, root |-> root, pose |-> PoseReset]

\* A transition built with blend_factor 1.0.
Transition_new_full(name, src, dest, time, rule) ==
    [name |-> name, transition_time |-> time, elapsed_time |-> 0, src |-> src,
     dest |-> dest, rule |-> rule, blend_factor |-> One]

Transition_new(name, src, dest, time, rule) ==
    [name |-> name, transition_time |-> time, elapsed_time |-> 0, src |-> src,
     dest |-> dest, rule |-> rule, blend_factor |-> Zero]

\* ---------------------------------------------------------------- Transition
\* A reset that forgets the blend factor.
reset_elapsed_only(t) == [t EXCEPT !.elapsed_time = 0]

\* An update without the clamp to transition_time.
update_unclamped(t, dt) ==
    [t EXCEPT !.elapsed_time = t.elapsed_time + dt,
              !.blend_factor = TimeDiv(t.elapsed_time + dt, t.transition_time)]

reset(t) == [t EXCEPT !.elapsed_time = 0, !.blend_factor = Zero]

\* An update that wraps elapsed_time around at transition_time instead of
\* clamping it there.
update_wrapping(t, dt) ==
    LET e1 == t.elapsed_time + dt
        e2 == IF t.transition_time > 0 /\ e1 >= t.transition_time
              THEN e1 % t.transition_time ELSE e1
    IN  [t EXCEPT !.elapsed_time = e2,
                  !.blend_factor = TimeDiv(e2, t.transition_time)]

update(t, dt) ==
    LET e1 == f32_round(t.elapsed_time + dt)
        e2 == IF e1 > t.transition_time THEN t.transition_time ELSE e1
    IN  [t EXCEPT !.elapsed_time = e2,
                  !.blend_factor = TimeDiv(e2, t.transition_time)]

is_done(t) == t.transition_time = t.elapsed_time

\* ------------------------------------------------------------------ state
\* Nothing has been written through Visit; nothing has been read back.
NoValue == [kind |-> "None"]
NothingSaved == [type |-> "None", value |-> NoValue, region |-> <<>>]
NotLoaded == [ok |-> FALSE, value |-> [kind |-> "NotLoaded"]]
VARIABLES
    nodes,              \* Machine.nodes: Pool<PoseNode>
    states,             \* Machine.states: Pool<State>
    transitions,        \* Machine.transitions: Pool<Transition>
    final_pose,         \* Machine.final_pose, the pose evaluate_pose returns
    active_state,       \* Machine.active_state: Handle<State>
    active_transition,  \* Machine.active_transition: Handle<Transition>
    parameters,         \* Machine.parameters: HashMap<String, Parameter>
    events,             \* Machine.events: VecDeque<Event>
    panicked,           \* a call has panicked (Pool::borrow of a handle that does not resolve)
    tr,                 \* a Transition driven on its own (SpecT)
    acc,                \* the time handed to tr's update since it was built or reset
    pushed,             \* the number of push_event calls made so far
    popped,             \* what the pop_event calls have returned so far, in call order
    saved,              \* the value last written through Visit, and the region it left
    loaded              \* what reading that region back through Visit gave

machine == <<nodes, states, transitions, final_pose, active_state,
             active_transition, parameters, events, panicked>>
vars == <<nodes, states, transitions, final_pose, active_state,
          active_transition, parameters, events, panicked, tr, acc, pushed, popped,
          saved, loaded>>

\* ------------------------------------------------------------- pose graph
\* The weight of one BlendPose: the constant, or the named parameter's Weight,
\* or 0.0 when the name is missing or names a Rule.
\* A weight lookup that reads a Rule as a weight: 1.0 for true, 0.0 for false.
pose_weight_rule_as_weight(w, params) ==
    IF w.kind = "Constant" THEN w.value
    ELSE IF w.param \in DOMAIN params
         THEN (IF params[w.param].kind = "Weight" THEN params[w.param].weight
               ELSE IF params[w.param].rule THEN One ELSE Zero)
         ELSE Zero

pose_weight(w, params) ==
    IF w.kind = "Constant" THEN w.value
    ELSE IF w.param \in DOMAIN params
         THEN (IF params[w.param].kind = "Weight" THEN params[w.param].weight ELSE Zero)
         ELSE Zero

\* EvaluatePose::eval_pose of the node at handle h.  The pose is left in the
\* node's output_pose; ok is FALSE when the call panics: Pool::borrow of a handle
\* that does not resolve, or RefCell::borrow_mut of the pose_sources of a blend
\* node that is being evaluated further up (its handle is in busy).  calls is
\* the number of eval_pose calls entered, depth how deep they nest.
Max(a, b) == IF a >= b THEN a ELSE b
RECURSIVE eval_pose(_, _, _, _, _)
RECURSIVE blend_children(_, _, _, _, _, _)
\* An eval_pose that hands back the reset pose of a blend node it enters
\* again, instead of panicking.
eval_pose_reentrant(ns, h, params, animations, busy) ==
    IF ~is_valid_handle(ns, h) THEN [nodes |-> ns, ok |-> FALSE, calls |-> 0, depth |-> 0]
    ELSE IF ns[h].kind = "PlayAnimation"
    THEN IF ns[h].animation \in DOMAIN animations
         THEN [nodes |-> [ns EXCEPT ![h].output_pose = clone_into(animations[ns[h].animation])],
               ok |-> TRUE, calls |-> 1, depth |-> 1]
         ELSE [nodes |-> ns, ok |-> FALSE, calls |-> 1, depth |-> 1]
    ELSE LET ns0 == [ns EXCEPT ![h].output_pose = PoseReset]
             r == blend_children(ns0, h, 1, params, animations, busy \cup {h})
         IN  IF h \in busy THEN [nodes |-> ns0, ok |-> TRUE, calls |-> 1, depth |-> 1]
             ELSE [r EXCEPT !.calls = @ + 1, !.depth = @ + 1]

eval_pose(ns, h, params, animations, busy) ==
    IF ~is_valid_handle(ns, h) THEN [nodes |-> ns, ok |-> FALSE, calls |-> 0, depth |-> 0]
    ELSE IF ns[h].kind = "PlayAnimation"
    THEN IF ns[h].animation \in DOMAIN animations
         THEN [nodes |-> [ns EXCEPT ![h].output_pose = clone_into(animations[ns[h].animation])],
               ok |-> TRUE, calls |-> 1, depth |-> 1]
         ELSE [nodes |-> ns, ok |-> FALSE, calls |-> 1, depth |-> 1]
    ELSE LET ns0 == [ns EXCEPT ![h].output_pose = PoseReset]
             r == blend_children(ns0, h, 1, params, animations, busy \cup {h})
         IN  IF h \in busy THEN [nodes |-> ns0, ok |-> FALSE, calls |-> 1, depth |-> 1]
             ELSE [r EXCEPT !.calls = @ + 1, !.depth = @ + 1]

\* The calls and the depth of a child's evaluation r added to those of the
\* evaluation rest of the children after it.
after_child(r, rest) ==
    [rest EXCEPT !.calls = r.calls + @, !.depth = Max(r.depth, @)]

\* A blend loop whose output is the last child's weighted pose: each child
\* overwrites the output instead of adding to it.
blend_children_overwrite(ns, h, i, params, animations, busy) ==
    IF i > Len(ns[h].pose_sources) THEN [nodes |-> ns, ok |-> TRUE, calls |-> 0, depth |-> 0]
    ELSE LET blend_pose == ns[h].pose_sources[i]
             weight == pose_weight(blend_pose.weight, params)
             r == eval_pose(ns, blend_pose.pose_source, params, animations, busy)
         IN  IF ~r.ok THEN r
             ELSE after_child(r, blend_children(
                    [r.nodes EXCEPT ![h].output_pose =
                        blend_with(PoseReset, r.nodes[blend_pose.pose_source].output_pose, weight)],
                    h, i + 1, params, animations, busy))

\* A blend loop that stores the weight it resolved in the pose source, as a
\* constant.
blend_children_resolving(ns, h, i, params, animations, busy) ==
    IF i > Len(ns[h].pose_sources) THEN [nodes |-> ns, ok |-> TRUE, calls |-> 0, depth |-> 0]
    ELSE LET blend_pose == ns[h].pose_sources[i]
             weight == pose_weight(blend_pose.weight, params)
             r == eval_pose(ns, blend_pose.pose_source, params, animations, busy)
         IN  IF ~r.ok THEN r
             ELSE after_child(r, blend_children(
                    [r.nodes EXCEPT
                        ![h].output_pose =
                            blend_with(@, r.nodes[blend_pose.pose_source].output_pose, weight),
                        ![h].pose_sources[i].weight = PoseWeight_Constant(weight)],
                    h, i + 1, params, animations, busy))

\* A blend loop that still holds a blend child borrowed while it evaluates the
\* children after it.
blend_children_held(ns, h, i, params, animations, busy) ==
    IF i > Len(ns[h].pose_sources) THEN [nodes |-> ns, ok |-> TRUE, calls |-> 0, depth |-> 0]
    ELSE LET blend_pose == ns[h].pose_sources[i]
             weight == pose_weight(blend_pose.weight, params)
             r == eval_pose(ns, blend_pose.pose_source, params, animations, busy)
         IN  IF ~r.ok THEN r
             ELSE after_child(r, blend_children(
                    [r.nodes EXCEPT ![h].output_pose =
                        blend_with(@, r.nodes[blend_pose.pose_source].output_pose, weight)],
                    h, i + 1, params, animations, busy \cup {blend_pose.pose_source}))

\* The loop of BlendAnimation::eval_pose from child i on.
blend_children(ns, h, i, params, animations, busy) ==
    IF i > Len(ns[h].pose_sources) THEN [nodes |-> ns, ok |-> TRUE, calls |-> 0, depth |-> 0]
    ELSE LET blend_pose == ns[h].pose_sources[i]
             weight == pose_weight(blend_pose.weight, params)
             r == eval_pose(ns, blend_pose.pose_source, params, animations, busy)
         IN  IF ~r.ok THEN r
             ELSE after_child(r, blend_children(
                    [r.nodes EXCEPT ![h].output_pose =
                        blend_with(@, r.nodes[blend_pose.pose_source].output_pose, weight)],
                    h, i + 1, params, animations, busy))

RECURSIVE update_states(_, _, _, _, _)
\* A State::update that keeps the pose a state already holds: only a state
\* still at the reset pose is evaluated.
update_states_cached(ss, ns, i, params, animations) ==
    IF i > Len(ss) THEN [states |-> ss, nodes |-> ns, ok |-> TRUE, calls |-> 0, depth |-> 0]
    ELSE IF ss[i].pose # PoseReset
    THEN update_states(ss, ns, i + 1, params, animations)
    ELSE LET r == eval_pose(ns, ss[i].root, params, animations, {})
         IN  IF ~r.ok
             THEN [states |-> ss, nodes |-> r.nodes, ok |-> FALSE,
                   calls |-> r.calls, depth |-> r.depth]
             ELSE after_child(r, update_states(
                    [ss EXCEPT ![i].pose = clone_into(r.nodes[ss[i].root].output_pose)],
                    r.nodes, i + 1, params, animations))

\* State::update of every state from index i on, in pool order.  ok is FALSE
\* when one of them panics; the states before it keep their new pose.
update_states(ss, ns, i, params, animations) ==
    IF i > Len(ss) THEN [states |-> ss, nodes |-> ns, ok |-> TRUE, calls |-> 0, depth |-> 0]
    ELSE LET s0 == [ss EXCEPT ![i].pose = PoseReset]
             r == eval_pose(ns, ss[i].root, params, animations, {})
         IN  IF ~r.ok
             THEN [states |-> s0, nodes |-> r.nodes, ok |-> FALSE,
                   calls |-> r.calls, depth |-> r.depth]
             ELSE after_child(r, update_states(
                    [s0 EXCEPT ![i].pose = clone_into(r.nodes[ss[i].root].output_pose)],
                    r.nodes, i + 1, params, animations))

\* ------------------------------------------------------ transition selection
\* A rule test that reads a Weight as a rule: true when it is not 0.0.
rule_fires_weight_as_rule(t, params, active) ==
    /\ t.dest # active
    /\ t.rule \in DOMAIN params
    /\ IF params[t.rule].kind = "Rule" THEN params[t.rule].rule
       ELSE params[t.rule].weight # Zero

\* A rule test that, once a state is active, also wants the transition to
\* leave that state.
rule_fires_from_active(t, params, active) ==
    /\ is_none(active) \/ t.src = active
    /\ t.dest # active
    /\ t.rule \in DOMAIN params
    /\ params[t.rule].kind = "Rule"
    /\ params[t.rule].rule

\* A scan that does not compare a transition's dest with the active state.
rule_fires_to_active(t, params, active) ==
    /\ t.rule \in DOMAIN params
    /\ params[t.rule].kind = "Rule"
    /\ params[t.rule].rule

\* Whether the scan activates transition t.
rule_fires(t, params, active) ==
    /\ t.dest # active
    /\ t.rule \in DOMAIN params
    /\ params[t.rule].kind = "Rule"
    /\ params[t.rule].rule

\* A scan without the break: a later transition that qualifies wins.
find_transition_last(ts, i, params, active) ==
    LET fire == {h \in i..Len(ts) : rule_fires(ts[h], params, active)}
    IN  IF fire = {} THEN NONE ELSE CHOOSE h \in fire : \A g \in fire : g <= h

\* The scan of the transition pool from index i on: the handle it activates,
\* NONE when it reaches the end.
RECURSIVE find_transition(_, _, _, _)
find_transition(ts, i, params, active) ==
    IF i > Len(ts) THEN NONE
    ELSE IF rule_fires(ts[i], params, active) THEN i
    ELSE find_transition(ts, i + 1, params, active)

\* Selection that marks the dest active only later: active_state is not set
\* with active_transition.
select_transition_late(ts, params, active, current) ==
    LET found == IF is_none(current) THEN find_transition(ts, 1, params, active) ELSE NONE
    IN  [active_transition |-> IF is_some(found) THEN found ELSE current,
         active_state |-> active]

\* Selection that scans on every tick, a transition being active or not.
select_transition_always(ts, params, active, current) ==
    LET found == find_transition(ts, 1, params, active)
    IN  IF is_some(found)
        THEN [active_transition |-> found, active_state |-> ts[found].dest]
        ELSE [active_transition |-> current, active_state |-> active]

\* Selection that drops an active transition whose rule no longer reads true
\* and scans again.
select_transition_cancelling(ts, params, active, current) ==
    LET holds == /\ is_valid_handle(ts, current)
                 /\ ts[current].rule \in DOMAIN params
                 /\ params[ts[current].rule].kind = "Rule"
                 /\ params[ts[current].rule].rule
        kept == IF holds THEN current ELSE NONE
        found == IF is_none(kept) THEN find_transition(ts, 1, params, active) ELSE NONE
    IN  IF is_some(found)
        THEN [active_transition |-> found, active_state |-> ts[found].dest]
        ELSE [active_transition |-> kept, active_state |-> active]

\* The selection step of evaluate_pose: the active transition and the active
\* state after it.  Nothing is scanned while a transition is active.
select_transition(ts, params, active, current) ==
    LET found == IF is_none(current) THEN find_transition(ts, 1, params, active) ELSE NONE
    IN  IF is_some(found)
        THEN [active_transition |-> found, active_state |-> ts[found].dest]
        ELSE [active_transition |-> current, active_state |-> active]

\* ------------------------------------------------------------ blend and advance
\* The blend with the two weights exchanged.
blend_states_swapped(fp, ss, t) ==
    IF ~is_valid_handle(ss, t.src) THEN [pose |-> fp, ok |-> FALSE]
    ELSE LET p1 == blend_with(fp, ss[t.src].pose, t.blend_factor)
         IN  IF ~is_valid_handle(ss, t.dest) THEN [pose |-> p1, ok |-> FALSE]
             ELSE [pose |-> blend_with(p1, ss[t.dest].pose, FSub(One, t.blend_factor)),
                   ok |-> TRUE]

\* The two blend_with calls of the active transition t into the final pose fp.
\* ok is FALSE when borrowing t.src or t.dest panics.
blend_states(fp, ss, t) ==
    IF ~is_valid_handle(ss, t.src) THEN [pose |-> fp, ok |-> FALSE]
    ELSE LET p1 == blend_with(fp, ss[t.src].pose, FSub(One, t.blend_factor))
         IN  IF ~is_valid_handle(ss, t.dest) THEN [pose |-> p1, ok |-> FALSE]
             ELSE [pose |-> blend_with(p1, ss[t.dest].pose, t.blend_factor), ok |-> TRUE]

\* An advance that comes before the blend: the blend reads the new factor.
transition_step_advance_first(fp, ss, t, dt) ==
    LET t1 == update(t, dt)
        b == blend_states(fp, ss, t1)
    IN  IF ~b.ok THEN [pose |-> b.pose, transition |-> t, done |-> FALSE, ok |-> FALSE]
        ELSE [pose |-> b.pose,
              transition |-> IF is_done(t1) THEN reset(t1) ELSE t1,
              done |-> is_done(t1),
              ok |-> TRUE]

\* A branch for an active transition that only blends a transition that has
\* not started: the advance waits for the next tick.
transition_step_deferred(fp, ss, t, dt) ==
    LET b == blend_states(fp, ss, t)
        t1 == IF t.elapsed_time = 0 THEN t ELSE update(t, dt)
    IN  IF ~b.ok THEN [pose |-> b.pose, transition |-> t, done |-> FALSE, ok |-> FALSE]
        ELSE [pose |-> b.pose,
              transition |-> IF is_done(t1) THEN reset(t1) ELSE t1,
              done |-> is_done(t1),
              ok |-> TRUE]

\* A branch for an active transition that clears a transition that is done
\* without resetting it.
transition_step_no_reset(fp, ss, t, dt) ==
    LET b == blend_states(fp, ss, t)
        t1 == update(t, dt)
    IN  IF ~b.ok THEN [pose |-> b.pose, transition |-> t, done |-> FALSE, ok |-> FALSE]
        ELSE [pose |-> b.pose, transition |-> t1, done |-> is_done(t1), ok |-> TRUE]

\* A branch for an active transition that resets a transition that is done
\* and leaves it the active one.
transition_step_keep_active(fp, ss, t, dt) ==
    LET b == blend_states(fp, ss, t)
        t1 == update(t, dt)
    IN  IF ~b.ok THEN [pose |-> b.pose, transition |-> t, done |-> FALSE, ok |-> FALSE]
        ELSE [pose |-> b.pose,
              transition |-> IF is_done(t1) THEN reset(t1) ELSE t1,
              done |-> FALSE,
              ok |-> TRUE]

\* The branch of evaluate_pose for an active transition t: blend, then advance
\* t by dt, then reset it if that made it done.
transition_step(fp, ss, t, dt) ==
    LET b == blend_states(fp, ss, t)
        t1 == update(t, dt)
    IN  IF ~b.ok THEN [pose |-> b.pose, transition |-> t, done |-> FALSE, ok |-> FALSE]
        ELSE [pose |-> b.pose,
              transition |-> IF is_done(t1) THEN reset(t1) ELSE t1,
              done |-> is_done(t1),
              ok |-> TRUE]

\* A tick without a transition that, with no state active, returns the pose of
\* the first state of the pool.
state_step_entry(fp, ss, active) ==
    IF is_none(active)
    THEN [pose |-> IF Len(ss) > 0 THEN clone_into(ss[1].pose) ELSE fp, ok |-> TRUE]
    ELSE IF ~is_valid_handle(ss, active) THEN [pose |-> fp, ok |-> FALSE]
    ELSE [pose |-> clone_into(ss[active].pose), ok |-> TRUE]

\* A tick without a transition that leaves the final pose at its reset value.
state_step_reset(fp, ss, active) == [pose |-> fp, ok |-> TRUE]

\* A tick without a transition that borrows the active state without asking
\* whether there is one.
state_step_unchecked(fp, ss, active) ==
    IF ~is_valid_handle(ss, active) THEN [pose |-> fp, ok |-> FALSE]
    ELSE [pose |-> clone_into(ss[active].pose), ok |-> TRUE]

\* A tick without a transition that returns the pose of the first state of
\* the pool, whichever state is active.
state_step_first(fp, ss, active) ==
    IF is_none(active) THEN [pose |-> fp, ok |-> TRUE]
    ELSE IF ~is_valid_handle(ss, active) THEN [pose |-> fp, ok |-> FALSE]
    ELSE [pose |-> clone_into(ss[1].pose), ok |-> TRUE]

\* The branch of evaluate_pose for no active transition: the final pose is
\* the active state's pose, if there is an active state.
state_step(fp, ss, active) ==
    IF is_none(active) THEN [pose |-> fp, ok |-> TRUE]
    ELSE IF ~is_valid_handle(ss, active) THEN [pose |-> fp, ok |-> FALSE]
    ELSE [pose |-> clone_into(ss[active].pose), ok |-> TRUE]

\* A tick that blends an active transition from the state that was active
\* when the tick began instead of from the transition's src.
tick_from_active(animations, dt) ==
    LET fp0 == PoseReset
        us == update_states(states, nodes, 1, parameters, animations)
        sel == select_transition(transitions, parameters, active_state, active_transition)
        base == [nodes |-> us.nodes, states |-> us.states, transitions |-> transitions,
                 final_pose |-> fp0, active_state |-> active_state,
                 active_transition |-> active_transition, ok |-> us.ok]
        picked == [base EXCEPT !.active_state = sel.active_state,
                               !.active_transition = sel.active_transition]
    IN  IF ~us.ok THEN base
        ELSE IF is_some(sel.active_transition)
        THEN IF ~is_valid_handle(transitions, sel.active_transition)
             THEN [picked EXCEPT !.ok = FALSE]
             ELSE LET h == sel.active_transition
                      from == IF is_some(active_state) THEN active_state
                              ELSE transitions[h].src
                      r == transition_step(fp0, us.states,
                                           [transitions[h] EXCEPT !.src = from], dt)
                  IN  [picked EXCEPT
                         !.final_pose = r.pose,
                         !.transitions = [transitions EXCEPT ![h] =
                                             [r.transition EXCEPT !.src = transitions[h].src]],
                         !.active_transition = IF r.done THEN NONE ELSE h,
                         !.ok = r.ok]
        ELSE LET r == state_step(fp0, us.states, sel.active_state)
             IN  [picked EXCEPT !.final_pose = r.pose, !.ok = r.ok]

\* ------------------------------------------------------------- evaluate_pose
\* Machine::evaluate_pose(animations, dt) as a function of the machine: the value
\* of every field when the call returns, or when it panics (ok = FALSE).
tick(animations, dt) ==
    LET fp0 == PoseReset
        us == update_states(states, nodes, 1, parameters, animations)
        sel == select_transition(transitions, parameters, active_state, active_transition)
        base == [nodes |-> us.nodes, states |-> us.states, transitions |-> transitions,
                 final_pose |-> fp0, active_state |-> active_state,
                 active_transition |-> active_transition, ok |-> us.ok]
        picked == [base EXCEPT !.active_state = sel.active_state,
                               !.active_transition = sel.active_transition]
    IN  IF ~us.ok THEN base
        ELSE IF is_some(sel.active_transition)
        THEN IF ~is_valid_handle(transitions, sel.active_transition)
             THEN [picked EXCEPT !.ok = FALSE]
             ELSE LET h == sel.active_transition
                      r == transition_step(fp0, us.states, transitions[h], dt)
                  IN  [picked EXCEPT
                         !.final_pose = r.pose,
                         !.transitions = [transitions EXCEPT ![h] = r.transition],
                         !.active_transition = IF r.done THEN NONE ELSE h,
                         !.ok = r.ok]
        ELSE LET r == state_step(fp0, us.states, sel.active_state)
             IN  [picked EXCEPT !.final_pose = r.pose, !.ok = r.ok]

\* A tick that queues an ActiveStateChanged event when it changes the active
\* state.
evaluate_pose_notifying(animations, dt) ==
    /\ ~panicked
    /\ LET r == tick(animations, dt)
       IN  /\ nodes' = r.nodes
           /\ states' = r.states
           /\ transitions' = r.transitions
           /\ final_pose' = r.final_pose
           /\ active_state' = r.active_state
           /\ active_transition' = r.active_transition
           /\ panicked' = ~r.ok
           /\ events' = IF r.active_state = active_state THEN events
                        ELSE Append(events, [kind |-> "ActiveStateChanged",
                                             state |-> r.active_state])
    /\ UNCHANGED <<parameters, tr, acc, pushed, popped, saved, loaded>>

evaluate_pose(animations, dt) ==
    /\ ~panicked
    /\ \E r \in {tick(animations, dt)} :
           /\ nodes' = r.nodes
           /\ states' = r.states
           /\ transitions' = r.transitions
           /\ final_pose' = r.final_pose
           /\ active_state' = r.active_state
           /\ active_transition' = r.active_transition
           /\ panicked' = ~r.ok
    /\ UNCHANGED <<parameters, events, tr, acc, pushed, popped, saved, loaded>>

\* ------------------------------------------------------- construction calls
\* What the owning application hands to the construction calls.
\* The k-th node plays clip k and the k-th state is rooted at the k-th node
\* handle, whether or not that node has been added yet.
NodeInputs == {PlayAnimation_new(k) : k \in {Len(nodes) + 1} \cap (1..MaxNodes)}
StateInputs == {State_new("S", Len(states) + 1)}
TransitionInputs ==
    { Transition_new("a", 1, 2, MaxDuration, "R1"),
      Transition_new("b", 2, 1, 1, "R2"),
      Transition_new("c", 1, 2, 0, "R2"),
      Transition_new("d", 2, 1, MaxDuration, "R1") }

add_node(node) ==
    /\ ~panicked
    /\ nodes' = spawn(nodes, node)
    /\ UNCHANGED <<states, transitions, final_pose, active_state, active_transition,
                   parameters, events, panicked, tr, acc, pushed, popped, saved, loaded>>

add_parameter(id, parameter) ==
    /\ ~panicked
    /\ parameters' = [n \in DOMAIN parameters \cup {id} |->
                        IF n = id THEN parameter ELSE parameters[n]]
    /\ UNCHANGED <<nodes, states, transitions, final_pose, active_state,
                   active_transition, events, panicked, tr, acc, pushed, popped, saved, loaded>>

\* A set that inserts a name that is missing.
set_parameter_insert(id, parameter) ==
    /\ ~panicked
    /\ parameters' = [n \in DOMAIN parameters \cup {id} |->
                        IF n = id THEN parameter ELSE parameters[n]]
    /\ UNCHANGED <<nodes, states, transitions, final_pose, active_state,
                   active_transition, events, panicked, tr, acc, pushed, popped, saved, loaded>>

\* A set that keeps the stored variant: a value of the other variant leaves
\* the variant's default.
set_parameter_keep_variant(id, parameter) ==
    /\ ~panicked
    /\ parameters' =
          IF id \notin DOMAIN parameters THEN parameters
          ELSE IF parameters[id].kind = parameter.kind
               THEN [parameters EXCEPT ![id] = parameter]
          ELSE [parameters EXCEPT ![id] =
                   IF parameters[id].kind = "Weight" THEN Weight(Zero) ELSE Rule(FALSE)]
    /\ UNCHANGED <<nodes, states, transitions, final_pose, active_state,
                   active_transition, events, panicked, tr, acc, pushed, popped, saved, loaded>>

set_parameter(id, parameter) ==
    /\ ~panicked
    /\ parameters' = IF id \in DOMAIN parameters
                     THEN [parameters EXCEPT ![id] = parameter]
                     ELSE parameters
    /\ UNCHANGED <<nodes, states, transitions, final_pose, active_state,
                   active_transition, events, panicked, tr, acc, pushed, popped, saved, loaded>>

add_state(state) ==
    /\ ~panicked
    /\ Len(states) < MaxStates
    /\ states' = spawn(states, state)
    /\ UNCHANGED <<nodes, transitions, final_pose, active_state, active_transition,
                   parameters, events, panicked, tr, acc, pushed, popped, saved, loaded>>

add_transition(transition) ==
    /\ ~panicked
    /\ Len(transitions) < MaxTransitions
    /\ transitions' = spawn(transitions, transition)
    /\ UNCHANGED <<nodes, states, final_pose, active_state, active_transition,
                   parameters, events, panicked, tr, acc, pushed, popped, saved, loaded>>

\* ------------------------------------------------------------ specification
\* Machine::new(), and a Transition of its own for SpecT.
Init ==
    /\ nodes = <<>>
    /\ states = <<>>
    /\ transitions = <<>>
    /\ final_pose = PoseReset
    /\ active_state = NONE
    /\ active_transition = NONE
    /\ parameters = [n \in {} |-> Rule(FALSE)]
    /\ events = <<>>
    /\ panicked = FALSE
    /\ tr = Transition_new("t", NONE, NONE, 0, "R1")
    /\ acc = 0
    /\ pushed = 0
    /\ popped = <<>>
    /\ saved = NothingSaved
    /\ loaded = NotLoaded

Next ==
    \/ \E node \in NodeInputs : add_node(node)
    \/ \E state \in StateInputs : add_state(state)
    \/ \E transition \in TransitionInputs : add_transition(transition)
    \/ \E id \in ParamNames, parameter \in ParamValues : add_parameter(id, parameter)
    \/ \E id \in ParamNames, parameter \in ParamValues : set_parameter(id, parameter)
    \/ \E animations \in AnimInputs, dt \in DtValues : evaluate_pose(animations, dt)

Spec == Init /\ [][Next]_vars

\* Frame times of either sign: evaluate_pose takes any f32.  A negative dt is
\* taken only while it leaves every elapsed_time at -MaxDt or above.
SignedDtValues == {0 - 1} \cup DtValues
dt_in_range(dt) ==
    dt >= 0 \/ \A h \in DOMAIN transitions : transitions[h].elapsed_time + dt >= 0 - MaxDt

NextSigned ==
    \/ \E node \in NodeInputs : add_node(node)
    \/ \E state \in StateInputs : add_state(state)
    \/ \E transition \in TransitionInputs : add_transition(transition)
    \/ \E id \in ParamNames, parameter \in ParamValues : add_parameter(id, parameter)
    \/ \E id \in ParamNames, parameter \in ParamValues : set_parameter(id, parameter)
    \/ \E animations \in AnimInputs, dt \in SignedDtValues :
          dt_in_range(dt) /\ evaluate_pose(animations, dt)

SpecSigned == Init /\ [][NextSigned]_vars

\* ------------------------------------------------- a Transition on its own
\* Transition::new with each duration, then update and reset called on it as
\* evaluate_pose calls them: reset only once the transition is done.
InitT ==
    /\ nodes = <<>>
    /\ states = <<>>
    /\ transitions = <<>>
    /\ final_pose = PoseReset
    /\ active_state = NONE
    /\ active_transition = NONE
    /\ parameters = [n \in {} |-> Rule(FALSE)]
    /\ events = <<>>
    /\ panicked = FALSE
    /\ \E time \in 0..MaxT : tr = Transition_new("t", NONE, NONE, time, "R1")
    /\ acc = 0
    /\ pushed = 0
    /\ popped = <<>>
    /\ saved = NothingSaved
    /\ loaded = NotLoaded

Transition_update(dt) ==
    /\ acc + dt <= MaxAcc
    /\ tr' = update(tr, dt)
    /\ acc' = acc + dt
    /\ UNCHANGED <<machine, pushed, popped, saved, loaded>>

Transition_reset ==
    /\ is_done(tr)
    /\ tr' = reset(tr)
    /\ acc' = 0
    /\ UNCHANGED <<machine, pushed, popped, saved, loaded>>

NextT ==
    \/ \E dt \in DtValues : Transition_update(dt)
    \/ Transition_reset

SpecT == InitT /\ [][NextT]_vars

\* ------------------------------------- rules and handles of the transitions
\* A machine whose rule names may be missing, name a Weight or name a Rule, and
\* whose transitions may have a dest that is the empty handle or a src that
\* resolves to no state.
RuleParamValues == {Rule(TRUE), Rule(FALSE), Weight(One)}
RuleTransitionInputs ==
    { Transition_new("a", 1, 2, 2, "R1"),
      Transition_new("n", 1, NONE, 1, "R2"),
      Transition_new("s", MaxStates + 1, 1, 1, "R1") }

NextR ==
    \/ \E node \in NodeInputs : add_node(node)
    \/ \E state \in StateInputs : add_state(state)
    \/ \E transition \in RuleTransitionInputs : add_transition(transition)
    \/ \E id \in ParamNames, parameter \in RuleParamValues : add_parameter(id, parameter)
    \/ \E id \in ParamNames, parameter \in RuleParamValues : set_parameter(id, parameter)
    \/ \E animations \in AnimInputs, dt \in DtValues : evaluate_pose(animations, dt)

SpecR == Init /\ [][NextR]_vars

\* ------------------------------------------------------------ event queue
StateEnter(h) == [kind |-> "StateEnter", state |-> h]
StateLeave(h) == [kind |-> "StateLeave", state |-> h]
ActiveStateChanged(h) == [kind |-> "ActiveStateChanged", state |-> h]
\* Option<Event>::None.
NoEvent == [kind |-> "None", state |-> NONE]

\* A push that tests the length with <= instead of <.
push_event_off_by_one(event) ==
    /\ ~panicked
    /\ events' = IF Len(events) <= EventCapacity THEN Append(events, event) ELSE events
    /\ pushed' = pushed + 1
    /\ UNCHANGED <<nodes, states, transitions, final_pose, active_state,
                   active_transition, parameters, panicked, tr, acc, popped, saved, loaded>>

push_event(event) ==
    /\ ~panicked
    /\ events' = IF Len(events) < EventCapacity THEN Append(events, event) ELSE events
    /\ pushed' = pushed + 1
    /\ UNCHANGED <<nodes, states, transitions, final_pose, active_state,
                   active_transition, parameters, panicked, tr, acc, popped, saved, loaded>>

\* A pop that takes the newest event.
pop_event_back ==
    /\ ~panicked
    /\ popped' = Append(popped, IF events = <<>> THEN NoEvent ELSE events[Len(events)])
    /\ events' = IF events = <<>> THEN events ELSE SubSeq(events, 1, Len(events) - 1)
    /\ UNCHANGED <<nodes, states, transitions, final_pose, active_state,
                   active_transition, parameters, panicked, tr, acc, pushed, saved, loaded>>

pop_event ==
    /\ ~panicked
    /\ popped' = Append(popped, IF events = <<>> THEN NoEvent ELSE Head(events))
    /\ events' = IF events = <<>> THEN events ELSE Tail(events)
    /\ UNCHANGED <<nodes, states, transitions, final_pose, active_state,
                   active_transition, parameters, panicked, tr, acc, pushed, saved, loaded>>

\* The event of the k-th push_event call: the three kinds in turn, about the
\* state handle k, so that every event pushed differs from every other.
EventInput(k) ==
    CASE k % 3 = 1 -> StateEnter(k)
      [] k % 3 = 2 -> StateLeave(k)
      [] k % 3 = 0 -> ActiveStateChanged(k)

NextE ==
    \/ pushed < EventCapacity + ExtraPushes /\ push_event(EventInput(pushed + 1))
    \/ Len(popped) < MaxPops /\ pop_event

SpecE == Init /\ [][NextE]_vars

\* ------------------------------------------------ a graph with blend nodes
\* A machine whose pose graph has blend nodes and whose parameters are weights
\* as well as rules.  Nodes 1..MaxNodes are the leaves; each node k after them
\* is one of three blends:
\*   0.75 * node 1 + 0.25 * node 2                 (the module's doc example),
\*   W1 * node (k - 1) + W2 * node 1               (parameter weights, nested),
\*   1.0 * node 2 + 0.5 * node (k + 1)             (weights that sum to 1.5, and
\*       a child handle that does not resolve until node k + 1 is added).
\* The one state is rooted at the node added last (at NONE in a machine
\* without nodes).  The frame time is of either sign.
GraphParamNames == {"W1", "W2"}
GraphParamValues == {Weight(Num(1, 2)), Rule(TRUE)}

BlendInputs(k) ==
    { BlendAnimation_new(<<BlendPose_new(PoseWeight_Constant(Num(3, 4)), 1),
                           BlendPose_new(PoseWeight_Constant(Num(1, 4)), 2)>>),
      BlendAnimation_new(<<BlendPose_new(PoseWeight_Parameter("W1"), k - 1),
                           BlendPose_new(PoseWeight_Parameter("W2"), 1)>>),
      BlendAnimation_new(<<BlendPose_new(PoseWeight_Constant(One), 2),
                           BlendPose_new(PoseWeight_Constant(Num(1, 2)), k + 1)>>) }

GraphNodeInputs ==
    LET k == Len(nodes) + 1
    IN  IF k <= MaxNodes THEN {PlayAnimation_new(k)}
        ELSE IF k <= MaxNodes + MaxBlendNodes THEN BlendInputs(k)
        ELSE {}

GraphStateInputs == IF Len(states) = 0 THEN {State_new("S", Len(nodes))} ELSE {}

NextG ==
    \/ \E node \in GraphNodeInputs : add_node(node)
    \/ \E state \in GraphStateInputs : add_state(state)
    \/ \E id \in GraphParamNames, parameter \in GraphParamValues : add_parameter(id, parameter)
    \/ \E id \in GraphParamNames, parameter \in GraphParamValues : set_parameter(id, parameter)
    \/ \E animations \in AnimInputs, dt \in SignedDtValues :
          dt_in_range(dt) /\ evaluate_pose(animations, dt)

SpecG == Init /\ [][NextG]_vars

\* ------------------------------------------- a built machine, three states
\* The machine of the module's doc example grown by a state: leaves 1 and 2,
\* the blend 3 = W1 * node 1 + 0.5 * node 2, and the blend
\* 4 = 1.0 * node 3 + 1.0 * node 3 + 0.25 * node 1, which lists node 3 twice and
\* shares node 1 with it; states 1, 2, 3 rooted at nodes 1, 2, 4; the
\* parameters R1, R2 (rules, false) and W1 (weight 0.5); and one of three
\* transition pools over 2 -> 3 (R1), 3 -> 1 (R2) and 1 -> 2 (R2).  The
\* application then sets parameters, ticks with clips that show one of two
\* sets of poses, and pops events.
WideNodes ==
    <<PlayAnimation_new(1),
      PlayAnimation_new(2),
      BlendAnimation_new(<<BlendPose_new(PoseWeight_Parameter("W1"), 1),
                           BlendPose_new(PoseWeight_Constant(Num(1, 2)), 2)>>),
      BlendAnimation_new(<<BlendPose_new(PoseWeight_Constant(One), 3),
                           BlendPose_new(PoseWeight_Constant(One), 3),
                           BlendPose_new(PoseWeight_Constant(Num(1, 4)), 1)>>)>>
WideStates == <<State_new("S1", 1), State_new("S2", 2), State_new("S3", 4)>>
WideTransitionPools ==
    { <<Transition_new("3->1", 3, 1, 1, "R2"), Transition_new("2->3", 2, 3, 2, "R1")>>,
      <<Transition_new("2->3", 2, 3, 2, "R1"), Transition_new("3->1", 3, 1, 1, "R2"),
        Transition_new("1->2", 1, 2, 2, "R2")>>,
      <<Transition_new("1->2", 1, 2, 2, "R2"), Transition_new("2->3", 2, 3, 2, "R1")>> }
WideParameters ==
    [n \in {"R1", "R2", "W1"} |-> IF n = "W1" THEN Weight(Num(1, 2)) ELSE Rule(FALSE)]
WideParamInputs ==
    ({"R1", "R2"} \X {Rule(TRUE), Rule(FALSE)}) \cup ({"W1"} \X {Weight(Num(1, 2)), Weight(One)})
WideAnimInputs == {[c \in Clips |-> F(c)], [c \in Clips |-> F(c + 2)]}
\* Frame times: none, and one that takes a transition of duration 2 half-way
\* and completes one of duration 1.
WideDtValues == {0, 1}

InitW ==
    /\ nodes = WideNodes
    /\ states = WideStates
    /\ transitions \in WideTransitionPools
    /\ final_pose = PoseReset
    /\ active_state = NONE
    /\ active_transition = NONE
    /\ parameters = WideParameters
    /\ events = <<>>
    /\ panicked = FALSE
    /\ tr = Transition_new("t", NONE, NONE, 0, "R1")
    /\ acc = 0
    /\ pushed = 0
    /\ popped = <<>>
    /\ saved = NothingSaved
    /\ loaded = NotLoaded

NextW ==
    \/ \E input \in WideParamInputs : set_parameter(input[1], input[2])
    \/ \E animations \in WideAnimInputs, dt \in WideDtValues : evaluate_pose(animations, dt)
    \/ Len(popped) < MaxPops /\ pop_event

SpecW == InitW /\ [][NextW]_vars

\* ------------------------------------------------- a machine kept ticking
\* Two leaf states, a long transition between them and a short one back, and
\* an application that sets the two rules and keeps calling evaluate_pose with
\* no frame time, a frame time of one unit, or that of a long pause.
Pause == 2^MantissaBits
LiveDtValues == {0, 1, Pause}
LiveNodes == <<PlayAnimation_new(1), PlayAnimation_new(2)>>
LiveStates == <<State_new("S1", 1), State_new("S2", 2)>>
LiveTransitions ==
    <<Transition_new("long", 1, 2, 2 * Pause, "R1"),
      Transition_new("short", 2, 1, MaxDuration, "R2")>>
LiveParamInputs == ParamNames \X {Rule(TRUE), Rule(FALSE)}

\* The frame times offered keep every elapsed time within MaxDuration units
\* or at Pause units and more.
live_dt_in_range(dt) ==
    \A h \in DOMAIN transitions :
        LET e == update(transitions[h], dt).elapsed_time
        IN  e <= MaxDuration \/ e >= Pause

InitL ==
    /\ nodes = LiveNodes
    /\ states = LiveStates
    /\ transitions = LiveTransitions
    /\ final_pose = PoseReset
    /\ active_state = NONE
    /\ active_transition = NONE
    /\ parameters = [n \in ParamNames |-> Rule(FALSE)]
    /\ events = <<>>
    /\ panicked = FALSE
    /\ tr = Transition_new("t", NONE, NONE, 0, "R1")
    /\ acc = 0
    /\ pushed = 0
    /\ popped = <<>>
    /\ saved = NothingSaved
    /\ loaded = NotLoaded

NextL ==
    \/ \E input \in LiveParamInputs : set_parameter(input[1], input[2])
    \/ \E animations \in WideAnimInputs, dt \in LiveDtValues :
          live_dt_in_range(dt) /\ evaluate_pose(animations, dt)

\* evaluate_pose is called with a frame time above 0.
LiveTick ==
    \E animations \in WideAnimInputs, dt \in LiveDtValues \ {0} :
        live_dt_in_range(dt) /\ evaluate_pose(animations, dt)

\* The application never stops calling evaluate_pose with a frame time above 0.
SpecL == InitL /\ [][NextL]_vars /\ WF_vars(LiveTick)

\* ------------------------------------------------------------ persistence
\* The Visitor keeps regions: a region maps field names to typed values.
\* Visiting a field while writing stores it under its name; visiting it while
\* reading fails when the region has no field of that name and type.
Field(t, v) == [t |-> t, v |-> v]
Ok(x) == [ok |-> TRUE, value |-> x]
Err(msg) == [ok |-> FALSE, value |-> [kind |-> "Err", msg |-> msg]]
visit_read(region, name, t) ==
    IF name \in DOMAIN region /\ region[name].t = t
    THEN Ok(region[name].v)
    ELSE Err("no such field")

\* A from_id that falls back to the default variant on an unknown id.
Parameter_from_id_default(id) ==
    CASE id = 1 -> Ok(Rule(FALSE))
      [] OTHER -> Ok(Weight(Zero))

Parameter_from_id(id) ==
    CASE id = 0 -> Ok(Weight(Zero))
      [] id = 1 -> Ok(Rule(FALSE))
      [] OTHER -> Err("Invalid parameter id")

Parameter_id(self) ==
    CASE self.kind = "Weight" -> 0
      [] self.kind = "Rule" -> 1

Parameter_visit_write(self) ==
    ("Id" :> Field("i32", Parameter_id(self)))
    @@ ("Value" :> IF self.kind = "Weight" THEN Field("f32", self.weight)
                                           ELSE Field("bool", self.rule))

Parameter_visit_read(region) ==
    LET id == visit_read(region, "Id", "i32")
        from == Parameter_from_id(id.value)
        weight == visit_read(region, "Value", "f32")
        rule == visit_read(region, "Value", "bool")
    IN  IF ~id.ok THEN id
        ELSE IF ~from.ok THEN from
        ELSE IF from.value.kind = "Weight"
        THEN (IF weight.ok THEN Ok(Weight(weight.value)) ELSE weight)
        ELSE (IF rule.ok THEN Ok(Rule(rule.value)) ELSE rule)

PoseWeight_from_id(id) ==
    CASE id = 0 -> Ok(PoseWeight_Parameter(""))
      [] id = 1 -> Ok(PoseWeight_Constant(Zero))
      [] OTHER -> Err("Invalid pose weight id")

PoseWeight_id(self) ==
    CASE self.kind = "Constant" -> 0
      [] self.kind = "Parameter" -> 1

PoseWeight_visit_write(self) ==
    ("Id" :> Field("i32", PoseWeight_id(self)))
    @@ (IF self.kind = "Constant" THEN "Value" :> Field("f32", self.value)
                                  ELSE "ParamId" :> Field("str", self.param))

PoseWeight_visit_read(region) ==
    LET id == visit_read(region, "Id", "i32")
        from == PoseWeight_from_id(id.value)
        constant == visit_read(region, "Value", "f32")
        param_id == visit_read(region, "ParamId", "str")
    IN  IF ~id.ok THEN id
        ELSE IF ~from.ok THEN from
        ELSE IF from.value.kind = "Constant"
        THEN (IF constant.ok THEN Ok(PoseWeight_Constant(constant.value)) ELSE constant)
        ELSE (IF param_id.ok THEN Ok(PoseWeight_Parameter(param_id.value)) ELSE param_id)

BlendPose_visit_write(self) ==
    ("Weight" :> Field("region", PoseWeight_visit_write(self.weight)))
    @@ ("PoseSource" :> Field("handle", self.pose_source))

BlendPose_visit_read(region) ==
    LET w == visit_read(region, "Weight", "region")
        weight == PoseWeight_visit_read(w.value)
        pose_source == visit_read(region, "PoseSource", "handle")
    IN  IF ~w.ok THEN w
        ELSE IF ~weight.ok THEN weight
        ELSE IF ~pose_source.ok THEN pose_source
        ELSE Ok(BlendPose_new(weight.value, pose_source.value))

\* Vec<BlendPose>: the elements in order; reading stops at the first failure.
Vec_visit_write(self) == [i \in DOMAIN self |-> BlendPose_visit_write(self[i])]
Vec_visit_read(items) ==
    LET rs == [i \in DOMAIN items |-> BlendPose_visit_read(items[i])]
        failed == {i \in DOMAIN items : ~rs[i].ok}
    IN  IF failed = {} THEN Ok([i \in DOMAIN items |-> rs[i].value])
        ELSE rs[CHOOSE i \in failed : \A j \in failed : i <= j]

PlayAnimation_visit_write(self) == "Animation" :> Field("handle", self.animation)
PlayAnimation_visit_read(region) ==
    LET animation == visit_read(region, "Animation", "handle")
    IN  IF animation.ok THEN Ok(PlayAnimation_new(animation.value)) ELSE animation

BlendAnimation_visit_write(self) ==
    "PoseSources" :> Field("vec", Vec_visit_write(self.pose_sources))
BlendAnimation_visit_read(region) ==
    LET items == visit_read(region, "PoseSources", "vec")
        pose_sources == Vec_visit_read(items.value)
    IN  IF ~items.ok THEN items
        ELSE IF ~pose_sources.ok THEN pose_sources
        ELSE Ok(BlendAnimation_new(pose_sources.value))

PoseNode_from_id(id) ==
    CASE id = 0 -> Ok(PlayAnimation_new(NONE))
      [] id = 1 -> Ok(BlendAnimation_new(<<>>))
      [] OTHER -> Err("Invalid pose node id")

PoseNode_id(self) ==
    CASE self.kind = "PlayAnimation" -> 0
      [] self.kind = "BlendAnimations" -> 1

\* KindId goes into the enclosing region, the variant's fields into a region
\* of their own.
PoseNode_visit_write(self) ==
    ("KindId" :> Field("i32", PoseNode_id(self)))
    @@ ("Node" :> Field("region", IF self.kind = "PlayAnimation"
                                  THEN PlayAnimation_visit_write(self)
                                  ELSE BlendAnimation_visit_write(self)))

PoseNode_visit_read(region) ==
    LET kind_id == visit_read(region, "KindId", "i32")
        from == PoseNode_from_id(kind_id.value)
        inner == visit_read(region, "Node", "region")
    IN  IF ~kind_id.ok THEN kind_id
        ELSE IF ~from.ok THEN from
        ELSE IF ~inner.ok THEN inner
        ELSE IF from.value.kind = "PlayAnimation"
        THEN PlayAnimation_visit_read(inner.value)
        ELSE BlendAnimation_visit_read(inner.value)

\* Visit of a value of one of the three tagged unions, by its type.
Visit_write(type, self) ==
    CASE type = "Parameter" -> Parameter_visit_write(self)
      [] type = "PoseWeight" -> PoseWeight_visit_write(self)
      [] type = "PoseNode" -> PoseNode_visit_write(self)

Visit_read(type, region) ==
    CASE type = "Parameter" -> Parameter_visit_read(region)
      [] type = "PoseWeight" -> PoseWeight_visit_read(region)
      [] type = "PoseNode" -> PoseNode_visit_read(region)

\* The values saved, and the discriminants a persisted region may hold.
VisitInputs ==
    ({"Parameter"} \X {Weight(Zero), Weight(Num(1, 2)), Rule(TRUE), Rule(FALSE)})
    \cup ({"PoseWeight"} \X {PoseWeight_Constant(Num(1, 2)), PoseWeight_Constant(One),
                             PoseWeight_Parameter("W1"), PoseWeight_Parameter("")})
    \cup ({"PoseNode"} \X ({WideNodes[i] : i \in DOMAIN WideNodes}
                           \cup {PlayAnimation_new(NONE), BlendAnimation_new(<<>>)}))
IdInputs == (0 - 1)..2
IdField(type) == IF type = "PoseNode" THEN "KindId" ELSE "Id"

\* A value is written through a writing Visitor.
visit_save(type, self) ==
    /\ saved' = [type |-> type, value |-> self, region |-> Visit_write(type, self)]
    /\ loaded' = NotLoaded
    /\ UNCHANGED <<machine, tr, acc, pushed, popped>>

\* The persisted data reaches the reader with another discriminant.
persisted_id(id) ==
    /\ saved.type # "None"
    /\ saved.region[IdField(saved.type)].v # id
    /\ saved' = [saved EXCEPT !.region[IdField(saved.type)].v = id]
    /\ loaded' = NotLoaded
    /\ UNCHANGED <<machine, tr, acc, pushed, popped>>

\* The same for the weight of a saved blend node's first pose source.
persisted_weight_id(id) ==
    /\ saved.type = "PoseNode"
    /\ saved.value.kind = "BlendAnimations"
    /\ saved.value.pose_sources # <<>>
    /\ saved.region["Node"].v["PoseSources"].v[1]["Weight"].v["Id"].v # id
    /\ saved' = [saved EXCEPT
                   !.region["Node"].v["PoseSources"].v[1]["Weight"].v["Id"].v = id]
    /\ loaded' = NotLoaded
    /\ UNCHANGED <<machine, tr, acc, pushed, popped>>

\* The region is read back through a reading Visitor.
visit_load ==
    /\ saved.type # "None"
    /\ loaded' = Visit_read(saved.type, saved.region)
    /\ UNCHANGED <<machine, tr, acc, pushed, popped, saved>>

NextV ==
    \/ \E input \in VisitInputs : visit_save(input[1], input[2])
    \/ \E id \in IdInputs : persisted_id(id)
    \/ \E id \in IdInputs : persisted_weight_id(id)
    \/ visit_load

SpecV == Init /\ [][NextV]_vars

\* ------------------------------------------------------------------ claims
\* What a tick that starts in the current state does before it blends.
StatesUpdate(animations) == update_states(states, nodes, 1, parameters, animations)
Selection == select_transition(transitions, parameters, active_state, active_transition)
\* The transition the tick blends and advances: the one already active, or the
\* one it activates; NONE when the tick blends no transition.
Blended == Selection.active_transition
\* A tick that returns (does not panic).
Returns(animations, dt) == evaluate_pose(animations, dt) /\ ~panicked'

\* The handles the documented rule lets a scan activate, and the first of them
\* in pool (insertion) order.
Qualifying ==
    {h \in DOMAIN transitions :
        /\ transitions[h].dest # active_state
        /\ transitions[h].rule \in DOMAIN parameters
        /\ parameters[transitions[h].rule] = Rule(TRUE)}
FirstQualifying ==
    IF Qualifying = {} THEN NONE
    ELSE CHOOSE h \in Qualifying : \A g \in Qualifying : h <= g

\* C1: a tick that starts with no active transition (and gets as far as the
\* scan) activates exactly the first transition in pool order whose dest is not
\* the active state and whose rule parameter is Rule(true): active_state becomes
\* its dest and active_transition its handle (or NONE again, if the same tick
\* also completes it).  If no transition qualifies, both are left unchanged.
C1_FirstQualifyingActivated ==
    [][\A animations \in AnimInputs, dt \in DtValues :
        (/\ evaluate_pose(animations, dt)
         /\ is_none(active_transition)
         /\ StatesUpdate(animations).ok)
        => IF FirstQualifying = NONE
           THEN active_transition' = NONE /\ active_state' = active_state
           ELSE /\ active_state' = transitions[FirstQualifying].dest
                /\ active_transition' \in {FirstQualifying, NONE}
                /\ active_transition' = NONE =>
                     \/ panicked'
                     \/ is_done(update(transitions[FirstQualifying], dt))
                /\ \A h \in DOMAIN transitions :
                     h # FirstQualifying => transitions'[h] = transitions[h]]_vars

\* C1 witness: the second transition of the pool is the active one although the
\* first one's rule reads true: the scan passed over the first (its dest was the
\* active state) and took the first that qualified.
C1_Witness ==
    /\ Len(transitions) = 2
    /\ active_transition = 2
    /\ transitions[2].elapsed_time > 0
    /\ transitions[1].rule \in DOMAIN parameters
    /\ parameters[transitions[1].rule] = Rule(TRUE)
    /\ ~panicked

\* C2: the tick that activates a transition sets active_state to its dest in
\* that same tick, whether or not the transition is still active when the tick
\* returns; and a tick that starts with a transition active, the tick that
\* completes it included, leaves active_state as it was.
C2_ActiveStateSetAtStart ==
    [][\A animations \in AnimInputs, dt \in DtValues :
        (evaluate_pose(animations, dt) /\ StatesUpdate(animations).ok)
        => /\ (is_none(active_transition) /\ is_some(Blended))
                => active_state' = transitions[Blended].dest
           /\ is_some(active_transition) => active_state' = active_state]_vars

\* C2 witness: a transition is part-way through (it was activated in an earlier
\* tick and has not completed) and the active state is already its dest, which
\* is not its src.
C2_Witness ==
    /\ is_some(active_transition)
    /\ transitions[active_transition].elapsed_time > 0
    /\ transitions[active_transition].elapsed_time
          < transitions[active_transition].transition_time
    /\ active_state = transitions[active_transition].dest
    /\ active_state # transitions[active_transition].src
    /\ ~panicked

\* C3: active_transition only goes from empty to one handle and from that
\* handle back to empty: no call replaces an active transition by another one,
\* and only evaluate_pose changes it at all.
C3_OneActiveTransition ==
    [][/\ is_some(active_transition) => active_transition' \in {active_transition, NONE}
       /\ active_transition' # active_transition
            => \E animations \in AnimInputs, dt \in DtValues :
                  evaluate_pose(animations, dt)]_vars

\* C3 witness: a transition is part-way through while another transition of the
\* pool passes the scan's tests (its dest is not the active state and its rule
\* reads true), and is not activated.
C3_Witness ==
    /\ is_some(active_transition)
    /\ transitions[active_transition].elapsed_time > 0
    /\ \E h \in DOMAIN transitions :
          h # active_transition /\ rule_fires(transitions[h], parameters, active_state)
    /\ ~panicked

\* src * (1 - f) + dest * f over the poses the states hold when the tick
\* returns, for transition t and blend factor f.
Crossfade(t, f) ==
    FAdd(FMul(states'[t.src].pose, FSub(One, f)), FMul(states'[t.dest].pose, f))

\* C4: a tick that blends a transition (one already active, or one it activates)
\* returns src pose * (1 - f) + dest pose * f, f being the blend_factor the
\* transition had when the tick began: the transition is advanced by dt only
\* after the blend.
C4_BlendBeforeAdvance ==
    [][\A animations \in AnimInputs, dt \in DtValues :
        (Returns(animations, dt) /\ is_some(Blended))
        => final_pose' = Crossfade(transitions[Blended], transitions[Blended].blend_factor)]_vars

\* C4 witness: a transition between two states of different poses has been
\* blended part-way: the pose returned lies strictly between the two.
C4_Witness ==
    /\ ~panicked
    /\ \E h \in DOMAIN transitions :
         LET t == transitions[h]
         IN  /\ is_valid_handle(states, t.src) /\ is_valid_handle(states, t.dest)
             /\ states[t.src].pose # states[t.dest].pose
             /\ final_pose # states[t.src].pose
             /\ final_pose # states[t.dest].pose
             /\ \/ FLe(states[t.src].pose, final_pose) /\ FLe(final_pose, states[t.dest].pose)
                \/ FLe(states[t.dest].pose, final_pose) /\ FLe(final_pose, states[t.src].pose)

\* C5: with S1 the active state, no transition active, and a transition h from
\* S1 to another state S2 that is the one the scan takes (its rule reads
\* Rule(true) and no earlier transition qualifies), the next tick activates h,
\* makes S2 the active state and returns S1's pose.
C5_RuleStartsTransition ==
    [][\A animations \in AnimInputs, dt \in DtValues :
        \A h \in DOMAIN transitions :
            (/\ Returns(animations, dt)
             /\ is_none(active_transition)
             /\ is_some(active_state)
             /\ transitions[h].src = active_state
             /\ transitions[h].dest # active_state
             /\ transitions[h].rule \in DOMAIN parameters
             /\ parameters[transitions[h].rule] = Rule(TRUE)
             /\ FirstQualifying = h)
            => /\ active_state' = transitions[h].dest
               /\ final_pose' = states'[transitions[h].src].pose
               /\ IF dt < transitions[h].transition_time
                  THEN /\ active_transition' = h
                       /\ transitions'[h].elapsed_time = dt
                  ELSE /\ active_transition' = NONE
                       /\ transitions'[h].elapsed_time = 0]_vars

\* C5 witness: the tick that activated a transition S1 -> S2 has returned: the
\* transition is active and has advanced, S2 is the active state, and the pose
\* returned is S1's and not S2's.
C5_Witness ==
    /\ ~panicked
    /\ is_some(active_transition)
    /\ LET t == transitions[active_transition]
       IN  /\ t.elapsed_time > 0
           /\ active_state = t.dest
           /\ final_pose = states[t.src].pose
           /\ final_pose # states[t.dest].pose

\* C6 as claimed: the tick in which the transition's blend factor reaches 1
\* returns the destination state's pose.
C6_DestPoseWhenFactorReachesOne ==
    [][\A animations \in AnimInputs, dt \in DtValues :
        (/\ Returns(animations, dt)
         /\ is_some(Blended)
         /\ update(transitions[Blended], dt).blend_factor = One)
        => final_pose' = states'[transitions[Blended].dest].pose]_vars

\* C6 as amended: no tick blends at factor 1.  The tick that completes a
\* transition returns the crossfade at the factor f < 1 the transition had
\* before that tick's advance, and leaves no transition active and the dest the
\* active state; the dest's pose is returned by a tick that starts with no
\* transition active and activates none.
C6_DestPoseAfterCompletion ==
    [][\A animations \in AnimInputs, dt \in DtValues :
        Returns(animations, dt)
        => /\ is_some(Blended)
                => /\ transitions[Blended].blend_factor # One
                   /\ FLe(transitions[Blended].blend_factor, One)
           /\ (is_some(Blended) /\ is_done(update(transitions[Blended], dt)))
                => /\ final_pose' = Crossfade(transitions[Blended],
                                              transitions[Blended].blend_factor)
                   /\ active_transition' = NONE
                   /\ active_state' = transitions[Blended].dest
           /\ (is_none(Blended) /\ is_some(active_state))
                => /\ final_pose' = states'[active_state].pose
                   /\ active_state' = active_state]_vars

\* C6 witness: a transition S1 -> S2 has completed and a later tick has
\* returned S2's pose: no transition is active or qualifies, every transition is
\* reset, S2 is the active state and the pose returned is S2's and not S1's.
C6_Witness ==
    /\ ~panicked
    /\ is_none(active_transition)
    /\ is_some(active_state)
    /\ Qualifying = {}
    /\ \E h \in DOMAIN transitions :
          /\ transitions[h].dest = active_state
          /\ is_valid_handle(states, transitions[h].src)
          /\ final_pose # states[transitions[h].src].pose
    /\ final_pose = states[active_state].pose

\* C7: once the time handed to a Transition's update calls exceeds its
\* duration, elapsed_time is the duration, blend_factor is 1 and is_done holds.
C7_ClampedAtDuration ==
    acc > tr.transition_time
    => /\ tr.elapsed_time = tr.transition_time
       /\ tr.blend_factor = One
       /\ is_done(tr)

\* C8: the tick whose advance makes the blended transition done leaves that
\* transition with elapsed_time 0 and blend_factor 0, and no transition active.
C8_ResetOnCompletion ==
    [][\A animations \in AnimInputs, dt \in DtValues :
        (/\ Returns(animations, dt)
         /\ is_some(Blended)
         /\ is_done(update(transitions[Blended], dt)))
        => /\ transitions'[Blended].elapsed_time = 0
           /\ transitions'[Blended].blend_factor = Zero
           /\ active_transition' = NONE]_vars

\* C8 witness: the last tick blended a transition part-way (the pose returned
\* lies strictly between its src's and its dest's) and completed it: no
\* transition is active and that transition is back at elapsed 0, factor 0.
C8_Witness ==
    /\ ~panicked
    /\ is_none(active_transition)
    /\ \E h \in DOMAIN transitions :
         LET t == transitions[h]
         IN  /\ t.dest = active_state
             /\ t.elapsed_time = 0 /\ t.blend_factor = Zero
             /\ is_valid_handle(states, t.src) /\ is_valid_handle(states, t.dest)
             /\ final_pose # states[t.src].pose
             /\ final_pose # states[t.dest].pose
             /\ final_pose # PoseReset

\* C9: while a transition stays active its blend_factor does not decrease from
\* one tick to the next; it is 0 in a transition just added and in one just
\* reset; and it is 1, after the advance, in the tick that completes it.
C9_BlendFactorMonotone ==
    [][/\ \A h \in DOMAIN transitions' :
            h \notin DOMAIN transitions => transitions'[h].blend_factor = Zero
       /\ \A animations \in AnimInputs, dt \in DtValues :
            Returns(animations, dt)
            => /\ (is_some(active_transition) /\ active_transition' = active_transition)
                    => FLe(transitions[active_transition].blend_factor,
                           transitions'[active_transition].blend_factor)
               /\ (is_some(Blended) /\ is_done(update(transitions[Blended], dt)))
                    => /\ update(transitions[Blended], dt).blend_factor = One
                       /\ transitions'[Blended].blend_factor = Zero]_vars

\* 0 <= elapsed_time <= transition_time, for every transition of the pool.
ElapsedWithinDuration ==
    \A h \in DOMAIN transitions :
        /\ 0 <= transitions[h].elapsed_time
        /\ transitions[h].elapsed_time <= transitions[h].transition_time

\* C10 as claimed: 0 <= elapsed_time <= transition_time in every reachable
\* state, whatever dt evaluate_pose is handed.
C10_ElapsedWithinDurationAnyDt == ElapsedWithinDuration

\* C10 as amended: a tick with dt >= 0, and every call other than a tick, keeps
\* 0 <= elapsed_time <= transition_time for every transition (all of them
\* built with a duration >= 0), in the state it leaves and in the advance
\* before the reset.
C10_ElapsedWithinDurationNonNegDt ==
    [][ElapsedWithinDuration
       => /\ \A animations \in AnimInputs, dt \in DtValues :
               evaluate_pose(animations, dt)
               => /\ ElapsedWithinDuration'
                  /\ is_some(Blended) /\ is_valid_handle(transitions, Blended)
                       => /\ 0 <= update(transitions[Blended], dt).elapsed_time
                          /\ update(transitions[Blended], dt).elapsed_time
                                <= transitions[Blended].transition_time
          /\ (~ \E animations \in AnimInputs, dt \in SignedDtValues :
                   evaluate_pose(animations, dt))
               => ElapsedWithinDuration']_vars

\* C10 witness: a tick has advanced the active transition to one time unit
\* short of its duration, so that any longer dt has to be clamped.
C10_Witness ==
    /\ ~panicked
    /\ is_some(active_transition)
    /\ transitions[active_transition].elapsed_time > 0
    /\ transitions[active_transition].elapsed_time + 1
          = transitions[active_transition].transition_time
    /\ ElapsedWithinDuration

\* C11: on a machine with no states and no transitions every tick, whatever dt
\* and parameters, returns (does not panic), returns the reset pose, leaves
\* active_state and active_transition empty and changes nothing else.
C11_EmptyMachineTick ==
    [][\A animations \in AnimInputs, dt \in SignedDtValues :
        (/\ Len(states) = 0
         /\ Len(transitions) = 0
         /\ evaluate_pose(animations, dt))
        => /\ ~panicked'
           /\ final_pose' = PoseReset
           /\ active_state' = NONE
           /\ active_transition' = NONE
           /\ UNCHANGED <<nodes, states, transitions, parameters, events>>]_vars

\* C11 witness: a machine that has nodes and a rule parameter reading true but
\* no state and no transition, ticking without a panic: the pose is the reset
\* pose and nothing is active.
C11_Witness ==
    /\ Len(states) = 0
    /\ Len(transitions) = 0
    /\ Len(nodes) > 0
    /\ \E n \in DOMAIN parameters : parameters[n] = Rule(TRUE)
    /\ ~panicked
    /\ final_pose = PoseReset
    /\ is_none(active_state)
    /\ is_none(active_transition)

\* C12: set_parameter on a name that was never added changes nothing: the
\* store has the same names and the same value under each, and the name is
\* still missing.
C12_SetMissingIsNoOp ==
    [][\A id \in GraphParamNames, parameter \in GraphParamValues :
        (set_parameter(id, parameter) /\ id \notin DOMAIN parameters)
        => /\ DOMAIN parameters' = DOMAIN parameters
           /\ \A n \in DOMAIN parameters : parameters'[n] = parameters[n]
           /\ id \notin DOMAIN parameters']_vars

\* C12 witness: one name has been added and the other has not, so that a set
\* of the other is the claim's case.
C12_Witness ==
    /\ ~panicked
    /\ "W1" \in DOMAIN parameters
    /\ "W2" \notin DOMAIN parameters
    /\ parameters["W1"] = Weight(Num(1, 2))

\* The store maps id to parameter, and every other name to what it mapped to.
StoredOver(id, parameter, names) ==
    /\ DOMAIN parameters' = names
    /\ parameters'[id] = parameter
    /\ \A n \in DOMAIN parameters : n # id => parameters'[n] = parameters[n]

\* C13: add_parameter(name, v) leaves the store mapping name to v, the name
\* having been present or not; set_parameter(name, v) on a present name
\* replaces its value by v, of either variant; both leave every other name as
\* it was.
C13_AddInsertsSetOverwrites ==
    [][\A id \in GraphParamNames, parameter \in GraphParamValues :
        /\ add_parameter(id, parameter)
             => StoredOver(id, parameter, DOMAIN parameters \cup {id})
        /\ (set_parameter(id, parameter) /\ id \in DOMAIN parameters)
             => StoredOver(id, parameter, DOMAIN parameters)]_vars

\* C13 witness: a value has been overwritten by one of the other variant: a
\* blend node weighted by W1 and W2 holds a pose that is not the reset pose,
\* from a tick in which one of them was a Weight, and both are Rules now.
C13_Witness ==
    /\ ~panicked
    /\ DOMAIN parameters = GraphParamNames
    /\ \A n \in GraphParamNames : parameters[n].kind = "Rule"
    /\ \E h \in DOMAIN nodes :
          /\ nodes[h].kind = "BlendAnimations"
          /\ \A i \in DOMAIN nodes[h].pose_sources :
                nodes[h].pose_sources[i].weight.kind = "Parameter"
          /\ nodes[h].output_pose # PoseReset

\* The child handles of node h, and the nodes reached from the set S through
\* child handles that resolve.
Children(ns, h) ==
    {ns[h].pose_sources[i].pose_source : i \in DOMAIN ns[h].pose_sources}
RECURSIVE Reached(_, _)
Reached(ns, S) ==
    LET T == S \cup {c \in DOMAIN ns : \E h \in S : c \in Children(ns, h)}
    IN  IF T = S THEN S ELSE Reached(ns, T)
\* The nodes a tick evaluates: those reached from the states' roots.
Evaluated == Reached(nodes, {states[i].root : i \in DOMAIN states} \cap DOMAIN nodes)
\* Every handle the evaluator follows resolves, and no blend node is its own
\* descendant.
GraphResolves ==
    /\ \A i \in DOMAIN states : states[i].root \in DOMAIN nodes
    /\ \A h \in Evaluated :
          /\ Children(nodes, h) \subseteq DOMAIN nodes
          /\ h \notin Reached(nodes, Children(nodes, h))

\* The sum, in list order from the reset pose, of weight ws[i] times the pose
\* child i of node h holds in ns, over the first n children.
RECURSIVE WeightedSum(_, _, _, _)
WeightedSum(ns, h, ws, n) ==
    IF n = 0 THEN PoseReset
    ELSE FAdd(WeightedSum(ns, h, ws, n - 1),
              FMul(ws[n], ns[ns[h].pose_sources[n].pose_source].output_pose))

\* The weight the documentation gives a blend child: its constant; the w of a
\* parameter that is Weight(w); 0.0 for a name that is missing or is a Rule.
DocumentedWeight(bp) ==
    CASE bp.weight.kind = "Constant" -> bp.weight.value
      [] bp.weight.kind = "Parameter" /\ bp.weight.param \notin DOMAIN parameters -> Zero
      [] bp.weight.kind = "Parameter" /\ bp.weight.param \in DOMAIN parameters ->
            IF parameters[bp.weight.param].kind = "Rule" THEN Zero
            ELSE parameters[bp.weight.param].weight

\* C14: a tick of a graph whose handles all resolve returns, whatever the
\* parameters are; and in every tick that returns, each evaluated blend node
\* with a parameter-weighted child holds the sum of its children's poses with
\* a child weighted by a missing name or by a Rule counted 0.0 times and a
\* child weighted by Weight(w) counted w times.
C14_ParameterWeightOrZero ==
    [][\A animations \in AnimInputs, dt \in DtValues :
        evaluate_pose(animations, dt)
        => /\ GraphResolves => ~panicked'
           /\ ~panicked' =>
                \A h \in Evaluated :
                    (/\ nodes[h].kind = "BlendAnimations"
                     /\ \E i \in DOMAIN nodes[h].pose_sources :
                           nodes[h].pose_sources[i].weight.kind = "Parameter")
                    => nodes'[h].output_pose =
                         WeightedSum(nodes', h,
                                     [i \in DOMAIN nodes[h].pose_sources |->
                                         DocumentedWeight(nodes[h].pose_sources[i])],
                                     Len(nodes[h].pose_sources))]_vars

\* C14 witness: the state is rooted at the blend W1 * child + W2 * leaf, W1 is
\* Weight(0.5) and W2 a Rule that reads true, and the tick has left the state
\* half the child's pose: the leaf, whose pose is not zero, adds nothing.
C14_Witness ==
    /\ ~panicked
    /\ DOMAIN parameters = GraphParamNames
    /\ parameters["W1"] = Weight(Num(1, 2))
    /\ parameters["W2"] = Rule(TRUE)
    /\ \E s \in DOMAIN states :
          /\ states[s].root \in DOMAIN nodes
          /\ LET n == nodes[states[s].root]
             IN  /\ n.kind = "BlendAnimations"
                 /\ n.pose_sources[1].weight = PoseWeight_Parameter("W1")
                 /\ n.pose_sources[2].weight = PoseWeight_Parameter("W2")
                 /\ nodes[n.pose_sources[2].pose_source].output_pose # PoseReset
                 /\ nodes[n.pose_sources[1].pose_source].output_pose # PoseReset
                 /\ states[s].pose =
                       FMul(Num(1, 2), nodes[n.pose_sources[1].pose_source].output_pose)

\* C15: in every tick that returns, each evaluated blend node holds the sum,
\* accumulated in list order from the reset pose, of its children's poses
\* times their weights as they are, whether or not the weights sum to 1; for
\* the children 0.75 and 0.25 over two leaves showing A and B that is
\* 0.75 * A + 0.25 * B.
C15_LiteralWeightedSum ==
    [][\A animations \in AnimInputs, dt \in DtValues :
        Returns(animations, dt)
        => \A h \in Evaluated :
             nodes[h].kind = "BlendAnimations"
             => /\ nodes'[h].output_pose =
                     WeightedSum(nodes', h,
                                 [i \in DOMAIN nodes[h].pose_sources |->
                                     pose_weight(nodes[h].pose_sources[i].weight, parameters)],
                                 Len(nodes[h].pose_sources))
                /\ \A a, b \in DOMAIN nodes :
                     (/\ nodes[a].kind = "PlayAnimation"
                      /\ nodes[b].kind = "PlayAnimation"
                      /\ nodes[h].pose_sources =
                            <<BlendPose_new(PoseWeight_Constant(Num(3, 4)), a),
                              BlendPose_new(PoseWeight_Constant(Num(1, 4)), b)>>)
                     => nodes'[h].output_pose =
                          FAdd(FMul(Num(3, 4), animations[nodes[a].animation]),
                               FMul(Num(1, 4), animations[nodes[b].animation]))]_vars

\* C15 witness: a state is rooted at a blend whose constant weights sum to 1.5,
\* over a leaf and the 0.75/0.25 blend of two leaves showing different poses;
\* the tick has left the state 1.0 * leaf + 0.5 * (0.75 * A + 0.25 * B).
C15_Witness ==
    /\ ~panicked
    /\ \E s \in DOMAIN states, h, c \in DOMAIN nodes :
          /\ states[s].root = h
          /\ nodes[h].kind = "BlendAnimations"
          /\ nodes[h].pose_sources[1].weight = PoseWeight_Constant(One)
          /\ nodes[h].pose_sources[2] = BlendPose_new(PoseWeight_Constant(Num(1, 2)), c)
          /\ nodes[c].pose_sources =
                <<BlendPose_new(PoseWeight_Constant(Num(3, 4)), 1),
                  BlendPose_new(PoseWeight_Constant(Num(1, 4)), 2)>>
          /\ nodes[1].output_pose # nodes[2].output_pose
          /\ nodes[c].output_pose =
                FAdd(FMul(Num(3, 4), nodes[1].output_pose),
                     FMul(Num(1, 4), nodes[2].output_pose))
          /\ states[s].pose =
                FAdd(nodes[nodes[h].pose_sources[1].pose_source].output_pose,
                     FMul(Num(1, 2), nodes[c].output_pose))
          /\ states[s].pose # PoseReset

\* C16: the queue never holds more than EventCapacity events; a push_event
\* on a queue that holds EventCapacity events leaves it as it is and does not
\* fail; and after EventCapacity + 2 pushes onto a fresh machine, with nothing
\* popped, the queue holds the first EventCapacity events pushed, in push order.
C16_QueueCappedAtCapacity ==
    [][/\ Len(events') <= EventCapacity
       /\ (push_event(EventInput(pushed + 1)) /\ Len(events) = EventCapacity)
            => events' = events /\ ~panicked'
       /\ (pushed' = EventCapacity + 2 /\ popped' = <<>>)
            => events' = [i \in 1..EventCapacity |-> EventInput(i)]]_vars

\* C16 witness: EventCapacity + 2 pushes have been made and nothing popped: the
\* queue is full and its newest event is the one pushed EventCapacity-th.
C16_Witness ==
    /\ pushed = EventCapacity + 2
    /\ popped = <<>>
    /\ Len(events) = EventCapacity
    /\ events[EventCapacity] = EventInput(EventCapacity)

\* The events among what pop_event has returned, in return order.
Returned == SelectSeq(popped, LAMBDA e : e # NoEvent)
\* The handles of a sequence of events increase: the events are in push order.
InPushOrder(q) == \A i \in 1..(Len(q) - 1) : q[i].state < q[i + 1].state
\* What the pops have returned, followed by what is queued, is in push order.
FifoOrder ==
    /\ InPushOrder(Returned)
    /\ InPushOrder(events)
    /\ (Returned # <<>> /\ events # <<>>) => Returned[Len(Returned)].state < events[1].state

\* C17: pop_event on a queue that is not empty returns its oldest event and
\* removes it; on an empty queue it returns None and changes nothing; what the
\* pops have returned, followed by what is queued, is in push order; and a
\* push onto a queue below its capacity, one that a pop has just taken from
\* included, appends the event.
C17_PopIsFifo ==
    [][/\ pop_event
            => /\ events # <<>>
                    => /\ popped'[Len(popped')] = events[1]
                       /\ events' = [i \in 1..(Len(events) - 1) |-> events[i + 1]]
               /\ events = <<>>
                    => popped'[Len(popped')] = NoEvent /\ UNCHANGED machine
       /\ FifoOrder'
       /\ (push_event(EventInput(pushed + 1)) /\ Len(events) < EventCapacity)
            => events' = Append(events, EventInput(pushed + 1))]_vars

\* C17 witness: the queue was full, a pop returned the event pushed first, and
\* a later push was accepted into the freed slot: the queue is full again, its
\* oldest event is the second pushed and its newest was pushed after the
\* capacity had been reached.
C17_Witness ==
    /\ popped = <<EventInput(1)>>
    /\ Len(events) = EventCapacity
    /\ events[1] = EventInput(2)
    /\ events[EventCapacity].state > EventCapacity + 1

\* No blend node the tick evaluates is reached from itself.
Acyclic ==
    \A h \in Evaluated : h \notin Reached(nodes, Children(nodes, h) \cap DOMAIN nodes)
\* Some pose-node handle the tick follows does not resolve: a state's root, or
\* a child of an evaluated blend node.
StaleNodeHandle ==
    \/ \E i \in DOMAIN states : states[i].root \notin DOMAIN nodes
    \/ \E h \in Evaluated : ~(Children(nodes, h) \subseteq DOMAIN nodes)

\* C18: a tick of an acyclic graph in which a state's root handle or a blend
\* child's handle does not resolve returns all the same, and a state whose
\* root does not resolve is left with the reset pose.
C18_StaleNodeHandleNoFailure ==
    [][\A animations \in AnimInputs, dt \in DtValues :
        (evaluate_pose(animations, dt) /\ Acyclic /\ StaleNodeHandle)
        => /\ ~panicked'
           /\ \A i \in DOMAIN states :
                states[i].root \notin DOMAIN nodes => states'[i].pose = PoseReset]_vars

\* The src or the dest of transition h resolves to no state.
StaleStateHandle(h) ==
    \/ ~is_valid_handle(states, transitions[h].src)
    \/ ~is_valid_handle(states, transitions[h].dest)

\* C19: a tick that blends a transition (one already active, or one it
\* activates) whose src or dest handle is empty or resolves to no state
\* returns all the same.
C19_StaleStateHandleNoFailure ==
    [][\A animations \in AnimInputs, dt \in DtValues :
        (/\ evaluate_pose(animations, dt)
         /\ StatesUpdate(animations).ok
         /\ is_some(Blended)
         /\ StaleStateHandle(Blended))
        => ~panicked']_vars

\* The rule name of transition h is missing from the store, or names a Weight,
\* or names Rule(false).
RuleNotTrue(h) ==
    \/ transitions[h].rule \notin DOMAIN parameters
    \/ parameters[transitions[h].rule].kind = "Weight"
    \/ parameters[transitions[h].rule] = Rule(FALSE)
\* The transitions whose rule reads true and whose dest is not the active state.
Live == {h \in DOMAIN transitions : ~RuleNotTrue(h) /\ transitions[h].dest # active_state}

C21_SrcNotCompared ==
    [][\A animations \in WideAnimInputs, dt \in WideDtValues :
        \A h \in DOMAIN transitions :
            (/\ is_none(active_transition)
             /\ is_some(active_state)
             /\ transitions[h].src # active_state
             /\ transitions[h].dest # active_state
             /\ FirstQualifying = h
             /\ evaluate_pose(animations, dt))
            => /\ ~panicked'
               /\ active_state' = transitions[h].dest
               /\ final_pose' = states'[transitions[h].src].pose
               /\ IF is_done(update(transitions[h], dt))
                  THEN active_transition' = NONE
                  ELSE active_transition' = h]_vars

\* C21 witness: a transition B -> C is part-way through and the pose returned
\* is B's, in a machine that has no transition into B and has one into a
\* third state A: B has never been the active state.
C21_Witness ==
    /\ ~panicked
    /\ is_some(active_transition)
    /\ LET t == transitions[active_transition]
       IN  /\ t.elapsed_time > 0
           /\ active_state = t.dest
           /\ final_pose = states[t.src].pose
           /\ final_pose # PoseReset
           /\ \A g \in DOMAIN transitions : transitions[g].dest # t.src
           /\ \E g \in DOMAIN transitions : transitions[g].dest \notin {t.src, t.dest}

\* Whether the persisted region is still what the Visit of the saved value wrote.
AsWritten == saved.region = Visit_write(saved.type, saved.value)
\* from_id and id of the saved value's type.
FromIdOfId ==
    CASE saved.type = "Parameter" -> Parameter_from_id(Parameter_id(saved.value))
      [] saved.type = "PoseWeight" -> PoseWeight_from_id(PoseWeight_id(saved.value))
      [] saved.type = "PoseNode" -> PoseNode_from_id(PoseNode_id(saved.value))

\* C22: for every saved Parameter, PoseWeight and PoseNode, from_id(x.id()) has
\* the variant of x, and reading back what the Visit wrote gives a value of the
\* variant that was saved, with the field it was saved with.
C22_SavedVariantReloaded ==
    saved.type # "None"
    => /\ FromIdOfId.ok
       /\ FromIdOfId.value.kind = saved.value.kind
       /\ (loaded # NotLoaded /\ AsWritten) => loaded = Ok(saved.value)

\* The discriminants from_id knows, and the error from_id gives for the others.
KnownIds == {0, 1}
InvalidId ==
    CASE saved.type = "Parameter" -> Err("Invalid parameter id")
      [] saved.type = "PoseWeight" -> Err("Invalid pose weight id")
      [] saved.type = "PoseNode" -> Err("Invalid pose node id")
\* The persisted discriminant of the saved value, and of the weight of a saved
\* blend node's first pose source.
PersistedId == saved.region[IdField(saved.type)].v
HasWeight ==
    /\ saved.type = "PoseNode"
    /\ saved.value.kind = "BlendAnimations"
    /\ saved.value.pose_sources # <<>>
PersistedWeightId == saved.region["Node"].v["PoseSources"].v[1]["Weight"].v["Id"].v

\* C23: reading a Parameter, PoseWeight or PoseNode whose persisted
\* discriminant is not a known one fails with from_id's error and gives no
\* value, and an unknown discriminant of a nested weight fails the visit of
\* the node that encloses it with that error.
C23_UnknownIdFailsVisit ==
    loaded # NotLoaded
    => /\ PersistedId \notin KnownIds => loaded = InvalidId
       /\ (HasWeight /\ PersistedId = PoseNode_id(saved.value)
             /\ PersistedWeightId \notin KnownIds)
          => loaded = Err("Invalid pose weight id")

\* C23 happens: a saved blend node was read back with an unknown discriminant
\* in its first weight and the read of the node failed with the weight's error.
C23_Witness ==
    /\ HasWeight
    /\ PersistedWeightId \notin KnownIds
    /\ loaded = Err("Invalid pose weight id")

\* The pose the graph under node h shows for the animations of this tick and
\* the parameters as they are: the clip's pose for a leaf, the weighted sum of
\* the first n children's for a blend node.
RECURSIVE CurrentPose(_, _)
RECURSIVE CurrentSum(_, _, _)
CurrentPose(h, animations) ==
    IF nodes[h].kind = "PlayAnimation" THEN animations[nodes[h].animation]
    ELSE CurrentSum(h, Len(nodes[h].pose_sources), animations)
CurrentSum(h, n, animations) ==
    IF n = 0 THEN PoseReset
    ELSE FAdd(CurrentSum(h, n - 1, animations),
              FMul(DocumentedWeight(nodes[h].pose_sources[n]),
                   CurrentPose(nodes[h].pose_sources[n].pose_source, animations)))

\* C25: a tick that returns leaves every state, active or not, with the pose
\* its root shows for this tick's animations, and the transition it blends,
\* one it has just activated included, is blended from the poses its src and
\* dest show for this tick's animations.
C25_EveryStateRecomputed ==
    [][\A animations \in WideAnimInputs, dt \in WideDtValues :
        Returns(animations, dt)
        => /\ \A i \in DOMAIN states :
                states'[i].pose = CurrentPose(states[i].root, animations)
           /\ is_some(Blended) =>
                LET t == transitions[Blended]
                IN  final_pose' =
                      FAdd(FMul(CurrentPose(states[t.src].root, animations),
                                FSub(One, t.blend_factor)),
                           FMul(CurrentPose(states[t.dest].root, animations),
                                t.blend_factor))]_vars

\* C25 witness: a transition is part-way, and a state that is neither its src
\* nor its dest holds the pose of the animations of the last tick, which
\* differ from those of the first input.
C25_Witness ==
    /\ ~panicked
    /\ is_some(active_transition)
    /\ transitions[active_transition].elapsed_time > 0
    /\ \E i \in DOMAIN states, animations \in WideAnimInputs :
          /\ i # transitions[active_transition].src
          /\ i # transitions[active_transition].dest
          /\ nodes[states[i].root].kind = "PlayAnimation"
          /\ animations[nodes[states[i].root].animation] # F(nodes[states[i].root].animation)
          /\ states[i].pose = animations[nodes[states[i].root].animation]

\* C26: a tick that starts with a state active and no transition active, and
\* in which no transition qualifies, returns the pose the active state's root
\* shows for this tick's animations, which is the pose that state then holds,
\* and leaves active_state, active_transition and every transition as they
\* were.
C26_SteadyStateTick ==
    [][\A animations \in WideAnimInputs, dt \in WideDtValues :
        (/\ is_none(active_transition)
         /\ is_some(active_state)
         /\ Qualifying = {}
         /\ evaluate_pose(animations, dt))
        => /\ ~panicked'
           /\ final_pose' = states'[active_state].pose
           /\ final_pose' = CurrentPose(states[active_state].root, animations)
           /\ active_state' = active_state
           /\ active_transition' = active_transition
           /\ transitions' = transitions]_vars

\* C26 witness: the third state, rooted at a blend node, is active with no
\* transition active, no transition qualifies, every transition is at rest,
\* and the pose returned is the pose that state holds.
C26_Witness ==
    /\ ~panicked
    /\ is_none(active_transition)
    /\ active_state = Len(WideStates)
    /\ Qualifying = {}
    /\ \A h \in DOMAIN transitions :
          transitions[h].elapsed_time = 0 /\ transitions[h].blend_factor = Zero
    /\ final_pose = states[active_state].pose
    /\ final_pose # PoseReset
    /\ final_pose # states[1].pose

\* C27: no tick changes the event queue, whether it activates a transition,
\* completes one or does neither; so the queue of a machine that is built,
\* parameterised and ticked through its public calls is empty after every
\* call, and every pop_event on it has returned None.
C27_NoEventEverQueued ==
    [][/\ \A animations \in WideAnimInputs, dt \in WideDtValues :
            evaluate_pose(animations, dt) => events' = events
       /\ events' = <<>>
       /\ \A i \in DOMAIN popped' : popped'[i] = NoEvent]_vars

\* C27 witness: pop_event has been called after a tick activated a transition
\* (it is part-way, the active state is its dest) and returned None.
C27_Witness ==
    /\ ~panicked
    /\ popped # <<>>
    /\ popped[Len(popped)] = NoEvent
    /\ events = <<>>
    /\ is_some(active_transition)
    /\ transitions[active_transition].elapsed_time > 0
    /\ active_state = transitions[active_transition].dest

\* What a pose node is apart from its pose buffer.
NodeStructure(n) == [kind |-> n.kind, animation |-> n.animation, pose_sources |-> n.pose_sources]
\* What a transition is apart from its progress.
TransitionStructure(t) ==
    [name |-> t.name, src |-> t.src, dest |-> t.dest,
     transition_time |-> t.transition_time, rule |-> t.rule]

\* C28: a tick leaves the three pools with the entries they had, and leaves
\* as they were the parameter store, the event queue, every state's name and
\* root, every transition's name, src, dest, duration and rule, every node's
\* kind, clip and pose sources with their weights, and the progress of every
\* transition that is active neither before nor after the tick.
C28_TickKeepsStructure ==
    [][\A animations \in WideAnimInputs, dt \in WideDtValues :
        evaluate_pose(animations, dt)
        => /\ DOMAIN nodes' = DOMAIN nodes
           /\ DOMAIN states' = DOMAIN states
           /\ DOMAIN transitions' = DOMAIN transitions
           /\ parameters' = parameters
           /\ events' = events
           /\ \A i \in DOMAIN states :
                states'[i].name = states[i].name /\ states'[i].root = states[i].root
           /\ \A h \in DOMAIN transitions :
                /\ TransitionStructure(transitions'[h]) = TransitionStructure(transitions[h])
                /\ h \notin {active_transition, active_transition'}
                     => transitions'[h] = transitions[h]
           /\ \A h \in DOMAIN nodes :
                NodeStructure(nodes'[h]) = NodeStructure(nodes[h])]_vars

\* C28 witness: ticks have filled the pose buffers and taken a transition
\* part-way while a weight parameter has been set, and the nodes and states
\* are as they were built.
C28_Witness ==
    /\ ~panicked
    /\ is_some(active_transition)
    /\ transitions[active_transition].elapsed_time > 0
    /\ final_pose # PoseReset
    /\ parameters # WideParameters
    /\ \A h \in DOMAIN nodes :
          /\ NodeStructure(nodes[h]) = NodeStructure(WideNodes[h])
          /\ nodes[h].output_pose # PoseReset
    /\ \A i \in DOMAIN states :
          /\ states[i].name = WideStates[i].name
          /\ states[i].root = WideStates[i].root
          /\ states[i].pose # PoseReset

\* A blend node the tick would evaluate is reached from itself.
Cyclic == ~Acyclic

\* C29 as stated: the evaluation of a graph with a cycle is not cut off: it
\* nests deeper than one entry of every node and one entry more.
C29_CycleRecursesWithoutBound ==
    [][\A animations \in AnimInputs, dt \in SignedDtValues :
        (Cyclic /\ evaluate_pose(animations, dt))
        => StatesUpdate(animations).depth > Len(nodes) + 1]_vars

\* C29: a tick of a graph with a cycle fails: the evaluation panics at a
\* handle that does not resolve or, at the latest, when it enters again a
\* blend node it is still evaluating, so no node is entered below itself
\* more than once, the calls nest no deeper than one per node and one more,
\* and the tick returns no pose; with every handle resolving, the panic is
\* that of the second entry, below the first.
C29_CycleFailsAtReentry ==
    [][\A animations \in AnimInputs, dt \in SignedDtValues :
        (Cyclic /\ evaluate_pose(animations, dt))
        => LET us == StatesUpdate(animations)
           IN  /\ panicked'
               /\ final_pose' = PoseReset
               /\ us.depth <= Len(nodes) + 1
               /\ ~StaleNodeHandle => us.depth >= 2]_vars

\* C29 witness: a tick has panicked on a graph with a cycle all of whose
\* handles resolve.
C29_Witness ==
    /\ panicked
    /\ Cyclic
    /\ ~StaleNodeHandle
    /\ final_pose = PoseReset

\* The references the evaluation of node h follows: the one to h and, for a
\* blend node, those below each entry of its list, an entry listed twice or a
\* node shared with another parent counted each time.
RECURSIVE References(_)
RECURSIVE ReferencesBelow(_, _)
References(h) == 1 + ReferencesBelow(h, Len(nodes[h].pose_sources))
ReferencesBelow(h, n) ==
    IF n = 0 THEN 0
    ELSE ReferencesBelow(h, n - 1) + References(nodes[h].pose_sources[n].pose_source)
RECURSIVE RootReferences(_)
RootReferences(n) ==
    IF n = 0 THEN 0 ELSE RootReferences(n - 1) + References(states[n].root)

\* C30: a tick of an acyclic graph whose handles all resolve returns, having
\* evaluated a node once for every reference to it that is followed: once
\* per state rooted at it and once per entry of a blend node's list below an
\* evaluated reference, nested no deeper than the number of nodes.
C30_AcyclicTickTerminates ==
    [][\A animations \in WideAnimInputs, dt \in WideDtValues :
        (GraphResolves /\ evaluate_pose(animations, dt))
        => LET us == StatesUpdate(animations)
           IN  /\ ~panicked'
               /\ us.ok
               /\ us.calls = RootReferences(Len(states))
               /\ us.depth <= Len(nodes)]_vars

\* C30 witness: a tick has returned with a blend node that lists one blend
\* child twice and shares a leaf with that child holding the sum over its
\* list, the child counted twice.
C30_Witness ==
    /\ ~panicked
    /\ \E h \in DOMAIN nodes :
          LET ps == nodes[h].pose_sources
          IN  /\ Len(ps) > 2
              /\ ps[1].pose_source = ps[2].pose_source
              /\ nodes[ps[1].pose_source].kind = "BlendAnimations"
              /\ ps[Len(ps)].pose_source \in Children(nodes, ps[1].pose_source)
              /\ nodes[ps[1].pose_source].output_pose # PoseReset
              /\ nodes[h].output_pose =
                    WeightedSum(nodes, h, [i \in DOMAIN ps |-> DocumentedWeight(ps[i])], Len(ps))
              /\ \E i \in DOMAIN states : states[i].root = h /\ states[i].pose = nodes[h].output_pose

\* The stages of a transition's life between two calls.
Idle(t) == t.elapsed_time = 0
Running(t) == 0 < t.elapsed_time /\ t.elapsed_time < t.transition_time

ZeroDtHolds ==
    [][\A animations \in WideAnimInputs :
        (/\ is_some(active_transition)
         /\ transitions[active_transition].transition_time > 0
         /\ evaluate_pose(animations, 0))
        => /\ active_transition' = active_transition
           /\ active_state' = active_state
           /\ transitions' = transitions]_vars
\* A tick of a frame time above 0 that the f32 sum still adds to the elapsed
\* time of the transition that is active when the tick begins.
AdvancingTick ==
    \E animations \in WideAnimInputs, dt \in LiveDtValues \ {0} :
        /\ is_some(active_transition)
        /\ f32_round(transitions[active_transition].elapsed_time + dt)
              > transitions[active_transition].elapsed_time
        /\ evaluate_pose(animations, dt)

\* C32 as stated: while evaluate_pose keeps being called with a frame time
\* above 0, an active transition (all have a positive duration) is followed
\* by no transition being active; and a tick of frame time 0 completes no
\* transition and selects no other.
C32_PositiveDtCompletes ==
    /\ is_some(active_transition) ~> is_none(active_transition)
    /\ ZeroDtHolds

\* C32: while evaluate_pose keeps being called with a frame time above 0
\* that the f32 sum still adds to the active transition's elapsed time, an
\* active transition is followed by no transition being active; and a tick of
\* frame time 0 completes no transition and selects no other.
C32_AdvancingDtCompletes ==
    /\ ([]<><<AdvancingTick>>_vars)
          => (is_some(active_transition) ~> is_none(active_transition))
    /\ ZeroDtHolds

\* C32 witness: the long transition has completed: no transition is active,
\* its dest is the active state, and the pose returned is the blend at the
\* factor 1/2 it had after the pause.
C32_Witness ==
    /\ ~panicked
    /\ is_none(active_transition)
    /\ active_state = LiveTransitions[1].dest
    /\ Idle(transitions[1])
    /\ final_pose = FAdd(FMul(states[1].pose, Num(1, 2)), FMul(states[2].pose, Num(1, 2)))

\* Whether the rule of transition t reads true in the parameters.
RuleReadsTrue(t) ==
    /\ t.rule \in DOMAIN parameters
    /\ parameters[t.rule].kind = "Rule"
    /\ parameters[t.rule].rule

\* C33: parameter changes do not cancel or replace an active transition.  A
\* set_parameter leaves active_transition and active_state as they are, and a
\* tick that begins with a transition active, whatever the parameters read,
\* leaves active_state as it is and active_transition either as it is or, when
\* the tick's advance made that transition done, empty.
C33_ActiveTransitionNotCancelled ==
    [][/\ \A id \in ParamNames, parameter \in RuleParamValues :
            set_parameter(id, parameter)
            => /\ active_transition' = active_transition
               /\ active_state' = active_state
       /\ \A animations \in AnimInputs, dt \in DtValues :
            (is_some(active_transition) /\ evaluate_pose(animations, dt))
            => /\ active_state' = active_state
               /\ active_transition' =
                     IF ~panicked' /\ is_done(update(transitions[active_transition], dt))
                     THEN NONE ELSE active_transition]_vars

\* C33 witness: a transition is active and part-way through while its own rule
\* does not read true (set to Rule(false) or overwritten with a Weight) and the
\* rule of another transition, whose dest is not the active state, reads true.
C33_Witness ==
    /\ ~panicked
    /\ is_some(active_transition)
    /\ transitions[active_transition].elapsed_time > 0
    /\ ~RuleReadsTrue(transitions[active_transition])
    /\ parameters[transitions[active_transition].rule].kind = "Weight"
    /\ \E g \in DOMAIN transitions \ {active_transition} :
          RuleReadsTrue(transitions[g]) /\ transitions[g].dest # active_state

\* C34: whenever a transition is active when a call has returned, the active
\* state is the dest of that transition.
C34_ActiveStateIsDest ==
    is_some(active_transition)
    => /\ is_valid_handle(transitions, active_transition)
       /\ active_state = transitions[active_transition].dest

\* C34 witness: a transition is active and part-way through, its dest is the
\* active state, and its src is another state.
C34_Witness ==
    /\ ~panicked
    /\ is_some(active_transition)
    /\ transitions[active_transition].elapsed_time > 0
    /\ active_state = transitions[active_transition].dest
    /\ active_state # transitions[active_transition].src

\* C35: when a call has returned, every transition other than the active one
\* has elapsed_time 0 and blend_factor 0; with no transition active that is
\* every transition of the pool.
C35_OnlyActiveTransitionRuns ==
    \A h \in DOMAIN transitions :
        h # active_transition
        => /\ transitions[h].elapsed_time = 0
           /\ transitions[h].blend_factor = Zero

\* C35 witness: a transition is active and part-way through, and a transition
\* into its src, the state that was active before, is in the pool with
\* elapsed_time 0 and blend_factor 0.
C35_Witness ==
    /\ ~panicked
    /\ is_some(active_transition)
    /\ transitions[active_transition].elapsed_time > 0
    /\ transitions[active_transition].blend_factor # Zero
    /\ \E g \in DOMAIN transitions \ {active_transition} :
          /\ transitions[g].dest = transitions[active_transition].src
          /\ transitions[g].elapsed_time = 0
          /\ transitions[g].blend_factor = Zero

\* C36: every activation changes active_state to a different handle, and
\* nothing else changes it.  A tick that starts with no transition active and
\* reaches the scan changes active_state exactly when some transition with a
\* true rule has a dest other than the active state; a transition whose rule
\* reads true and whose dest is the active state does not fire on its own: the
\* tick leaves it idle, leaves no transition active, and returns the pose of
\* the active state.  So a transition cannot fire again until another one has
\* moved the active state away from its dest.
C36_ActivationChangesActiveState ==
    [][\A animations \in AnimInputs, dt \in DtValues :
        (evaluate_pose(animations, dt) /\ StatesUpdate(animations).ok)
        => /\ active_state' # active_state
                => is_none(active_transition) /\ Qualifying # {}
           /\ (is_none(active_transition) /\ Qualifying # {})
                => active_state' # active_state
           /\ \A h \in DOMAIN transitions :
                (/\ is_none(active_transition)
                 /\ RuleReadsTrue(transitions[h])
                 /\ transitions[h].dest = active_state
                 /\ Qualifying = {})
                => /\ active_transition' = NONE
                   /\ active_state' = active_state
                   /\ transitions'[h] = transitions[h]
                   /\ ~panicked' => final_pose' = states'[active_state].pose]_vars

\* C36 witness: a transition has completed, its dest is still the active
\* state and its rule still reads true, and the last tick returned the pose of
\* that state, which is not the pose of the transition's src: it did not fire
\* again.
C36_Witness ==
    /\ ~panicked
    /\ is_none(active_transition)
    /\ is_valid_handle(states, active_state)
    /\ Qualifying = {}
    /\ final_pose = states[active_state].pose
    /\ \E h \in DOMAIN transitions :
          /\ RuleReadsTrue(transitions[h])
          /\ transitions[h].dest = active_state
          /\ is_valid_handle(states, transitions[h].src)
          /\ states[transitions[h].src].pose # final_pose

\* A machine to which nothing has been added; a machine in which no state and
\* no transition is active; no transition's rule reads true.
Fresh == nodes = <<>> /\ states = <<>> /\ transitions = <<>> /\ DOMAIN parameters = {}
Unstarted == is_none(active_state) /\ is_none(active_transition)
NoRuleReadsTrue == \A h \in DOMAIN transitions : ~RuleReadsTrue(transitions[h])

\* C37: a fresh machine has an empty active_state and active_transition;
\* add_node, add_state, add_transition and add_parameter leave both as they
\* are; and a tick of a machine in which nothing is active yet and no rule
\* reads true leaves both empty and returns the reset pose, whatever states
\* the machine has.
C37_NothingActiveUntilARuleFires ==
    [][/\ Fresh => Unstarted
       /\ (\/ \E node \in NodeInputs : add_node(node)
           \/ \E state \in StateInputs : add_state(state)
           \/ \E transition \in TransitionInputs : add_transition(transition)
           \/ \E id \in ParamNames, parameter \in ParamValues : add_parameter(id, parameter))
            => /\ active_state' = active_state
               /\ active_transition' = active_transition
       /\ \A animations \in AnimInputs, dt \in DtValues :
            (Unstarted /\ NoRuleReadsTrue /\ evaluate_pose(animations, dt))
            => /\ Unstarted'
               /\ final_pose' = PoseReset
               /\ StatesUpdate(animations).ok => ~panicked']_vars

\* C37 witness: the machine has states, transitions and parameters, a tick
\* has computed the states' poses, no rule reads true, and still nothing is
\* active and the pose returned is the reset pose.
C37_Witness ==
    /\ ~panicked
    /\ Unstarted
    /\ NoRuleReadsTrue
    /\ Len(transitions) > 0
    /\ \A h \in DOMAIN transitions : transitions[h].rule \in DOMAIN parameters
    /\ Len(states) > 0
    /\ \A h \in DOMAIN states : states[h].pose # PoseReset
    /\ final_pose = PoseReset

\* C38: the tick that selects a transition also blends and advances it.  When
\* the tick returns, the dest is the active state and the pose returned is the
\* pose of the src; with dt below the duration the transition is the active
\* one and its elapsed time is dt; with dt at or above the duration (a
\* duration of 0 included) no transition is active and the transition is back
\* at elapsed_time 0 and blend_factor 0.
C38_SelectedTransitionAdvances ==
    [][\A animations \in AnimInputs, dt \in DtValues :
        \A h \in DOMAIN transitions :
            (/\ is_none(active_transition)
             /\ FirstQualifying = h
             /\ Returns(animations, dt))
            => /\ active_state' = transitions[h].dest
               /\ final_pose' = states'[transitions[h].src].pose
               /\ IF dt >= transitions[h].transition_time
                  THEN /\ active_transition' = NONE
                       /\ transitions'[h].elapsed_time = 0
                       /\ transitions'[h].blend_factor = Zero
                  ELSE /\ active_transition' = h
                       /\ transitions'[h].elapsed_time = dt
                       /\ transitions'[h].blend_factor
                             = TimeDiv(dt, transitions[h].transition_time)]_vars

\* C38 witness: a transition of duration 0 was activated and completed by the
\* last tick: no transition is active, the active state is the dest of
\* transitions of duration 0 only, the pose returned is the pose of such a
\* transition's src and not of the active state, and the transition is at
\* elapsed_time 0 and blend_factor 0.
C38_Witness ==
    /\ ~panicked
    /\ is_none(active_transition)
    /\ is_valid_handle(states, active_state)
    /\ final_pose # states[active_state].pose
    /\ \A g \in DOMAIN transitions :
          transitions[g].dest = active_state => transitions[g].transition_time = 0
    /\ \E h \in DOMAIN transitions :
          /\ transitions[h].dest = active_state
          /\ is_valid_handle(states, transitions[h].src)
          /\ final_pose = states[transitions[h].src].pose
          /\ transitions[h].elapsed_time = 0
          /\ transitions[h].blend_factor = Zero

\* C39: the pose a tick returns while a transition is active is blended from
\* the poses of the transition's own src and dest, at the factor the
\* transition has when the tick begins, and from no other state.  In the tick
\* that activates the transition that is the pose of its src, whichever state
\* was active before.
C39_BlendFromRecordedSrc ==
    [][\A animations \in WideAnimInputs, dt \in WideDtValues :
        \A h \in DOMAIN transitions :
            (Blended = h /\ Returns(animations, dt))
            => LET t == transitions[h]
                   f == t.blend_factor
               IN  /\ final_pose' = FAdd(FMul(states'[t.src].pose, FSub(One, f)),
                                         FMul(states'[t.dest].pose, f))
                   /\ is_none(active_transition)
                        => final_pose' = states'[t.src].pose]_vars

\* C39 witness: a transition B -> C is part-way through and the pose returned
\* is B's, while the machine has a transition from C into a third state A
\* whose pose is neither the reset pose nor the pose returned.
C39_Witness ==
    /\ ~panicked
    /\ is_some(active_transition)
    /\ LET t == transitions[active_transition]
       IN  /\ t.elapsed_time > 0
           /\ final_pose = states[t.src].pose
           /\ \E a \in DOMAIN states \ {t.src, t.dest} :
                 /\ \E g \in DOMAIN transitions :
                       transitions[g].dest = a /\ transitions[g].src = t.dest
                 /\ states[a].pose \notin {PoseReset, final_pose}

====
